---------------------------- MODULE Spec2Model ----------------------------
(***************************************************************************)
(* A model of CommonDecoder (src/src/models/common_decoder.h): the forward *)
(* pass orchestrator, its per-layer attention / FFN / reduceAdd protocol   *)
(* and the pipeline-parallel admission and hand-off around it.             *)
(*                                                                         *)
(* Several specifications share the module:                                *)
(*   Spec    one decoder object of a build without PIPELINE_PARALLEL: the  *)
(*           calls forward, setPrefix, unsetPrefix and skipFirstStep, each *)
(*           one atomic action (nothing in them blocks);                   *)
(*   SpecPP  a pipeline of NumStages stages of a PIPELINE_PARALLEL build,  *)
(*           each stage one process whose forward call is cut at its       *)
(*           suspension points (MPI_Recv, the ready-queue wait, MPI_Send); *)
(*   SpecPPMid  the same pipeline with one stage more, so that a stage     *)
(*           both receives and sends;                                      *)
(*   SpecKV  one decoder object and the contents of its KV cache, with     *)
(*           reorderCache;                                                 *)
(*   SpecP2P  the envelopes of the MPI sends and receives of a job of      *)
(*           ppSize stages of tpSize ranks;                                *)
(*   SpecLive  the pipeline of SpecPPMid under a fair scheduler, fed by    *)
(*           the serving loop of the first stage;                          *)
(*   SpecSplit  SpecKV with the step-0 calls whose input is no longer than *)
(*           the shared prefix;                                            *)
(*   SpecCB  the continuous-batch forward(seqs, logitsAll);                *)
(*   SpecOpt  an OptDecoder: the positions its embeddingForward computes   *)
(*           and the attention mask its prepareAttnMask builds;            *)
(*   SpecCtor  the construction of the decoders of a process from their    *)
(*           configuration and the later re-derivations of the context.    *)
(***************************************************************************)
EXTENDS Integers, Sequences, FiniteSets, TLC

(***************************************************************************)
(* Bounds of the model.                                                    *)
(***************************************************************************)
MaxBS == 2          \* userSideBS (dims[0]) ranges over 1..MaxBS
MaxBeam == 2        \* beamSize (dims[1]) ranges over 1..MaxBeam
MaxSeqLen == 2      \* seqLen (dims[2]) ranges over 1..MaxSeqLen
MaxStep == 1        \* the step argument ranges over 0..MaxStep
MaxAcc == 4         \* calls are issued while the accumulated length stays <= MaxAcc
MaxTP == 2          \* messenger.getSize() ranges over 1..MaxTP
MaxLayers == 2      \* decoderBlock->size() ranges over 1..MaxLayers
MaxPrefix == 1      \* setPrefix is called with a prefix of 1..MaxPrefix tokens
HiddenSize == 2     \* ctx->hiddenSize of the modelled configuration
NumStages == 2      \* ctx->ppSize: the pipeline stages of SpecPP
QueueCap == 2       \* the capacity of TaskWaitingQueue (Env: max request number)
ChanCap == 2        \* messages MPI buffers per (source, destination, tag) before a send blocks
MaxSeqId == 3       \* sequence identifiers range over 1..MaxSeqId
MaxSubmits == 4     \* requests the callers push to InputQueue in one run
PromptLen == 2      \* seqLen of the step-0 forward calls of SpecPP (later steps: 1 token)
ValueMod == 7       \* buffer contents are numbers modulo ValueMod
VocabSize == 3      \* ctx->vocabSize of the modelled configuration
MaxPositions == 3   \* ctx->maxPositions: the positions the KV cache is sized for
MaxCfgLayers == 3   \* num_layer of the configuration ranges over 1..MaxCfgLayers
MaxHeads == 2       \* head_num and kv_head_num range over 1..MaxHeads
MaxInter == 2       \* inter_size ranges over 1..MaxInter
MaxPP == 3          \* SpecP2P: ctx->ppSize ranges over 1..MaxPP
MaxP2PCalls == 2    \* SpecP2P: forward calls per rank
MidSubmits == 3     \* SpecPPMid: requests the callers push to InputQueue in one run
MidMaxStep == 0     \* SpecPPMid: the step argument ranges over 0..MidMaxStep
MaxDecoders == 2    \* decoder objects constructed in one process
MaxToken == 1       \* token ids range over 0..MaxToken
KvMaxSlots == 2     \* SpecKV: userSideBS * beamSize ranges over 1..KvMaxSlots
KvMaxLen == 2       \* SpecKV: calls are issued while a slot holds <= KvMaxLen positions
MaxBatch == 3       \* SpecCB: forward(seqs, logitsAll) gets 0..MaxBatch sequences

\* Buffers the forward pass addresses.
NoBuf == "-"

(***************************************************************************)
(* State.                                                                  *)
(***************************************************************************)
VARIABLES
    \* ---- the decoder object (Spec) ----
    accSeqLen,      \* this->accSeqLen
    initSeqLen,     \* this->initSeqLen
    prefixSeqLen,   \* this->prefixSeqLen
    prefixSharing,  \* this->prefixSharing
    ctx,            \* DecoderContext: batchSize, inputSeqLen, pastSeqLen after the last resize
    workers,        \* messenger.getSize(): the size of the TP group
    attnMlpParallel,\* the template parameter ATTN_MLP_PARALLEL
    layers,         \* decoderBlock->size(): the layers this rank owns
    ops,            \* the calls the last forward / prefixForward made, in order
    ret,            \* what the last call returned
    tpCalls,        \* per rank of the TP group: the layer-loop calls of the last call
    lnIn,           \* the activation rows the final normalization read, in order
    finalOut,       \* per logits row of the returned buffer: the activation row it
                    \* was computed from (-1: not written by this call)
    actCap,         \* the floats actBuffers has room for
    lastCall,       \* the arguments of the last forward call
    genDims,        \* userSideBS and beamSize of the call that opened the generation
    genKv,          \* the KV cache calls of the forward calls of the generation, in order
    \* ---- history of the calls (Spec) ----
    callLens,       \* the seqLen arguments of the forward calls since the last step-0 call
    genByStep0,     \* the current generation was opened by a step-0 forward call
    \* ---- the ranks of the pipeline (SpecPP), one per stage ----
    pc,             \* where the stage's forward call stands
    call,           \* the call's seqLen, step and pastSeqLen
    ppAcc,          \* the stage's accSeqLen
    embBuf,         \* the activations embBuf holds, named by the first-stage call that
                    \* embedded them (0: tokens this stage embedded, about to be overwritten)
    recvSeqID,      \* sequenceID of line 388
    sequenceID,     \* sequenceID of line 417
    taskQ,          \* TaskWaitingQueue: the ready queue
    inputQ,         \* InputQueue: the inbound queue
    pool,           \* SequencePool: the registry, keyed by sequence identifier
    chan,           \* chan[p]: the messages sent by stage p-1 to stage p, not yet received
    trace,          \* the steps of the stage's current (or last) call, in order
    ppRet,          \* what the stage's last call returned
    shutdownRequested, \* the serving loop has asked the ranks to stop
    \* ---- history (SpecPP) ----
    origin,         \* the stage whose caller submitted the identifier (-1: never used)
    nSubmits,       \* InputQueue pushes so far
    metaCreated,    \* newGroupMeta calls of line 395 per stage and identifier
    callNo,         \* forward calls the stage has begun
    rcvd,           \* the two messages the stage's current call received
    \* ---- construction (SpecCtor) ----
    phase,          \* "new": not constructed, "constructed", "exit": process ended
    cfg,            \* the values the constructor read from config.ini
    dt,             \* the weight data type dt of the constructor
    context,        \* this->context: the DecoderContext, or NoContext
    ctxCreated,     \* DecoderContext objects created so far
    steps,          \* what the constructor did, in order
    req,            \* the shapes of the last getDecoderContext call
    ctxGot,         \* what the last getDecoderContext call returned
    decoders,       \* decoder objects constructed in this process
    kvConfigures,   \* KVCacheMgr::instance().configure calls in this process
    \* ---- the KV cache (SpecKV) ----
    kvCache,        \* per layer: the slots (batch rows) of the cache, each the cached
                    \* positions in order, a position holding a token and its position id
    prefixKV,       \* per layer: the prefix cache (getPrefixKey / getPrefixValue)
    kvEvent,        \* the last call on the decoder and its arguments
    \* ---- the MPI world (SpecP2P) ----
    world,          \* ctx->ppSize and ctx->tpSize of the job, and the shapes of the
                    \* forward calls made so far (the same on every rank, line 316)
    wire,           \* per world rank: the envelopes of the sends addressed to it and
                    \* not yet received, in the order they were issued
    posted,         \* per world rank: where its forward call stands, the calls it has
                    \* begun and the envelope of the receive it is blocked in
    delivered,      \* the receives completed: the receive with the send it matched
    \* ---- the continuous-batch forward (SpecCB) ----
    seqs,           \* the sequences and logitsAll of the last forward(seqs, logitsAll)
    ctxSeqs,        \* the two lengths of the last ctx->resize of that path
    retSeqs,        \* what the last forward(seqs, logitsAll) returned
    \* ---- OptDecoder (SpecOpt) ----
    maskSize,       \* this->maskSize: the floats attnMask has room for
    attnMask,       \* the floats of attnMask (0, Lowest; Unset: never written)
    positions,      \* the positions array of the last embeddingForward call
    optCall         \* history: the arguments of the last prepareAttnMask call

decVars == <<accSeqLen, initSeqLen, prefixSeqLen, prefixSharing, ctx, workers,
             attnMlpParallel, layers, ops, ret, tpCalls, lnIn, finalOut, actCap, lastCall,
             genDims, genKv, callLens, genByStep0>>

ppVars == <<pc, call, ppAcc, embBuf, recvSeqID, sequenceID, taskQ, inputQ, pool, chan,
            trace, ppRet, shutdownRequested, origin, nSubmits, metaCreated, callNo, rcvd>>

ctorVars == <<phase, cfg, dt, context, ctxCreated, steps, req, ctxGot, decoders, kvConfigures>>

kvVars == <<kvCache, prefixKV, kvEvent>>

p2pVars == <<world, wire, posted, delivered>>

cbVars == <<seqs, ctxSeqs, retSeqs>>

optVars == <<maskSize, attnMask, positions, optCall>>

vars == <<decVars, ppVars, ctorVars, kvVars, p2pVars, cbVars, optVars>>

(***************************************************************************)
(* Helpers.                                                                *)
(***************************************************************************)
RECURSIVE SumSeq(_)
SumSeq(s) == IF s = <<>> THEN 0 ELSE Head(s) + SumSeq(Tail(s))

\* One call made by the orchestrator: op on layer (-1: none), reading src,
\* writing dst, with element / row count or length n.
Op(op, layer, src, dst, n) == [op |-> op, layer |-> layer, src |-> src, dst |-> dst, n |-> n]

NoRet == [ptr |-> "none", rows |-> 0]

\* No forward call yet.
NoDims == [userSideBS |-> 0, beamSize |-> 0]

NoCall == [userSideBS |-> 0, beamSize |-> 0, seqLen |-> 0, step |-> -1, logitsAll |-> FALSE,
           sharing |-> FALSE, prefixLen |-> 0]

(***************************************************************************)
(* forward(ids, dims, step, logitsAll): the shapes of the call.            *)
(***************************************************************************)
\* A variant that uses the beam-expanded batch in every call.
BatchSizeOfAllBeams(step, userSideBS, beamSize) ==
    userSideBS * beamSize

\* line 323: sequences are duplicated at step 0
BatchSizeOf(step, userSideBS, beamSize) ==
    IF step = 0 THEN userSideBS ELSE userSideBS * beamSize

\* A variant that starts after the prefix length whenever one was ever set.
PastSeqLenOfStalePrefix(step, acc, sharing, prefixLen) ==
    IF step = 0 THEN prefixLen ELSE acc

\* line 325, and line 338 for a step-0 call with prefix sharing
PastSeqLenOf(step, acc, sharing, prefixLen) ==
    IF step = 0 THEN (IF sharing THEN prefixLen ELSE 0) ELSE acc

\* line 326, and line 339 for a step-0 call with prefix sharing
InputSeqLenOf(step, seqLen, sharing, prefixLen) ==
    IF step = 0 /\ sharing THEN seqLen - prefixLen ELSE seqLen

\* A variant that does not restart the accumulated length at step 0.
AccAfterNoReset(step, acc, seqLen) ==
    acc + seqLen

\* lines 333-336 and 364: the accumulated length after the call
AccAfter(step, acc, seqLen) ==
    (IF step = 0 THEN 0 ELSE acc) + seqLen

(***************************************************************************)
(* The per-layer loop, lines 438-487 (forward) and 731-770 (prefixForward).*)
(***************************************************************************)
\* A variant that never reduces the attention output.
AttnReduceNever(i, size, parallel, n) ==
    <<>>

\* A variant that reduces the attention output whatever ATTN_MLP_PARALLEL is.
AttnReduceAlways(i, size, parallel, n) ==
    IF size > 1
    THEN <<Op("reduceAdd", i, "attnOut", "attnOut", n)>>
    ELSE <<>>

\* lines 462-468: the reduction of the attention output
AttnReduce(i, size, parallel, n) ==
    IF ~parallel /\ size > 1
    THEN <<Op("reduceAdd", i, "attnOut", "attnOut", n)>>
    ELSE <<>>

\* A variant in which FFN writes embBuf on every rank and nothing is reduced.
FfnAndReduceShardOnly(i, size, parallel, n) ==
    IF parallel
    THEN <<Op("forwardFFN", i, "embBuf", "embBuf", 0)>>
    ELSE <<Op("forwardFFN", i, "attnOut", "embBuf", 0)>>

\* lines 470-486: FFN and the reduction of its output
FfnAndReduce(i, size, parallel, n) ==
    IF parallel
    THEN IF size > 1
         THEN <<Op("forwardFFN", i, "embBuf", "outBuf", 0),
                Op("reduceAdd", i, "outBuf", "embBuf", n)>>
         ELSE <<Op("forwardFFN", i, "embBuf", "embBuf", 0)>>
    ELSE IF size > 1
         THEN <<Op("forwardFFN", i, "attnOut", "outBuf", 0),
                Op("reduceAdd", i, "outBuf", "embBuf", n)>>
         ELSE <<Op("forwardFFN", i, "attnOut", "embBuf", 0)>>

\* A variant that replicates the cache over the beams before the layer's
\* attention has appended the prompt.
LayerOpsExpandBeforeAttention(i, step, userSideBS, beamSize, seqLen, pastLen, sharing, prefixLen, size, parallel, n) ==
    (IF step = 0 /\ sharing
     THEN <<Op("expandPrefixCache", i, NoBuf, NoBuf, prefixLen)>> ELSE <<>>)
    \o (IF step = 0 /\ beamSize > 1
        THEN <<Op("expandCache", i, NoBuf, NoBuf, seqLen)>> ELSE <<>>)
    \o <<Op("forwardAttention", i, "embBuf", "attnOut", pastLen)>>
    \o AttnReduce(i, size, parallel, n)
    \o FfnAndReduce(i, size, parallel, n)

\* A variant that replicates the prefix cache after the layer's attention.
LayerOpsPrefixAfterAttention(i, step, userSideBS, beamSize, seqLen, pastLen, sharing, prefixLen, size, parallel, n) ==
    <<Op("forwardAttention", i, "embBuf", "attnOut", pastLen)>>
    \o (IF step = 0 /\ sharing
        THEN <<Op("expandPrefixCache", i, NoBuf, NoBuf, prefixLen)>> ELSE <<>>)
    \o (IF step = 0 /\ beamSize > 1
        THEN <<Op("expandCache", i, NoBuf, NoBuf, seqLen)>> ELSE <<>>)
    \o AttnReduce(i, size, parallel, n)
    \o FfnAndReduce(i, size, parallel, n)

\* lines 440-486: one iteration of the loop of forward
LayerOps(i, step, userSideBS, beamSize, seqLen, pastLen, sharing, prefixLen, size, parallel, n) ==
    (IF step = 0 /\ sharing
     THEN <<Op("expandPrefixCache", i, NoBuf, NoBuf, prefixLen)>> ELSE <<>>)
    \o <<Op("forwardAttention", i, "embBuf", "attnOut", pastLen)>>
    \o (IF step = 0 /\ beamSize > 1
        THEN <<Op("expandCache", i, NoBuf, NoBuf, seqLen)>> ELSE <<>>)
    \o AttnReduce(i, size, parallel, n)
    \o FfnAndReduce(i, size, parallel, n)

\* lines 437-487: for (i = 0; i < layers_per_pp_stage; ++i)
RECURSIVE LayerLoop(_, _, _, _, _, _, _, _, _, _, _, _)
LayerLoop(i, L, step, userSideBS, beamSize, seqLen, pastLen, sharing, prefixLen, size, parallel, n) ==
    IF i >= L THEN <<>>
    ELSE LayerOps(i, step, userSideBS, beamSize, seqLen, pastLen, sharing, prefixLen, size, parallel, n)
         \o LayerLoop(i + 1, L, step, userSideBS, beamSize, seqLen, pastLen, sharing, prefixLen,
                      size, parallel, n)

\* lines 733-769: one iteration of the loop of prefixForward
PrefixLayerOps(i, seqLen, size, parallel, n) ==
    <<Op("forwardAttention", i, "embBuf", "attnOut", 0)>>
    \o AttnReduce(i, size, parallel, n)
    \o FfnAndReduce(i, size, parallel, n)

\* lines 731-770
RECURSIVE PrefixLayerLoop(_, _, _, _, _, _)
PrefixLayerLoop(i, L, seqLen, size, parallel, n) ==
    IF i >= L THEN <<>>
    ELSE PrefixLayerOps(i, seqLen, size, parallel, n)
         \o PrefixLayerLoop(i + 1, L, seqLen, size, parallel, n)

\* The calls of the layer loop that read or write the KV cache, with the step
\* of the forward call that made them.
IsKvCall(o) == o.op \in {"expandPrefixCache", "forwardAttention", "expandCache"}

KvCallsOf(s, step) ==
    LET calls == SelectSeq(s, IsKvCall)
    IN  [k \in 1..Len(calls) |-> [op |-> calls[k].op, layer |-> calls[k].layer, step |-> step]]

\* A variant in which only the master rank takes the branches of a TP group
\* of more than one rank.
RankLayerCallsMasterOnly(r, L, step, userSideBS, beamSize, seqLen, pastLen, sharing, prefixLen, size, parallel, n) ==
    LayerLoop(0, L, step, userSideBS, beamSize, seqLen, pastLen, sharing, prefixLen,
              IF r = 0 THEN size ELSE 1, parallel, n)

\* lines 437-487 as rank r of the TP group runs them: the loop reads the
\* call's arguments, decoderBlock->size() and messenger.getSize(), never the
\* rank
RankLayerCalls(r, L, step, userSideBS, beamSize, seqLen, pastLen, sharing, prefixLen, size, parallel, n) ==
    LayerLoop(0, L, step, userSideBS, beamSize, seqLen, pastLen, sharing, prefixLen,
              size, parallel, n)

(***************************************************************************)
(* The data the calls move.  One number stands for the contents of a       *)
(* buffer.  The layers (DecoderBlock) and the messenger are not among the  *)
(* sources: a layer's shard-local result is some function of the rank, the *)
(* layer and the input, and reduceAdd is the all-reduce of the             *)
(* specification (4.3): the sum over the ranks, written on every rank.     *)
(***************************************************************************)
BufNames == {"embBuf", "attnOut", "outBuf"}

\* What embeddingForward writes: the same on every rank (the ids are synced).
EmbValue == 1

\* The shard-local attention output of rank r in layer i on input x.
ShardAttn(r, i, x) == (2 * x + 3 * r + i + 1) % ValueMod

\* The shard-local FFN output of rank r in layer i on input x.
ShardFfn(r, i, x) == ((r + 2) * x + r + i + 1) % ValueMod

RECURSIVE SumRanks(_, _)
SumRanks(f, r) == IF r < 0 THEN 0 ELSE f[r] + SumRanks(f, r - 1)

\* Messenger::reduceAdd(src, dst, n) on every rank of the group
ReduceAdd(buf, src, dst, size) ==
    LET total == SumRanks([r \in 0..(size - 1) |-> buf[r][src]], size - 1) % ValueMod
    IN  [r \in 0..(size - 1) |-> [buf[r] EXCEPT ![dst] = total]]

\* The buffers of the ranks, and the last FFN output of each, before any call.
NoData(size) ==
    [buf |-> [r \in 0..(size - 1) |-> [b \in BufNames |-> 0]],
     ffn |-> [r \in 0..(size - 1) |-> 0]]

\* The effect of one call of the forward pass, made by all ranks of the group.
ApplyOp(o, st, size) ==
    CASE o.op = "embeddingForward" ->
           [st EXCEPT !.buf = [r \in 0..(size - 1) |-> [st.buf[r] EXCEPT !["embBuf"] = EmbValue]]]
      [] o.op = "forwardAttention" ->
           [st EXCEPT !.buf = [r \in 0..(size - 1) |->
                                 [st.buf[r] EXCEPT ![o.dst] = ShardAttn(r, o.layer, st.buf[r][o.src])]]]
      [] o.op = "forwardFFN" ->
           [buf |-> [r \in 0..(size - 1) |->
                       [st.buf[r] EXCEPT ![o.dst] = ShardFfn(r, o.layer, st.buf[r][o.src])]],
            ffn |-> [r \in 0..(size - 1) |-> ShardFfn(r, o.layer, st.buf[r][o.src])]]
      [] o.op = "reduceAdd" ->
           [st EXCEPT !.buf = ReduceAdd(st.buf, o.src, o.dst, size)]
      [] OTHER -> st

\* The buffers after the first k calls of the sequence s.
RECURSIVE DataAfter(_, _, _)
DataAfter(s, k, size) ==
    IF k = 0 THEN NoData(size) ELSE ApplyOp(s[k], DataAfter(s, k - 1, size), size)

(***************************************************************************)
(* forward: before and after the layers.                                   *)
(***************************************************************************)
\* A variant without the second resize of a step-0 call with prefix sharing.
ResizeCallsOnce(step, batchSize, seqLen, acc, sharing, prefixLen) ==
    <<[batchSize |-> batchSize, inputSeqLen |-> seqLen,
       pastSeqLen |-> IF step = 0 THEN 0 ELSE acc]>>

\* lines 330 and 352: the ctx->resize calls of forward, in order
ResizeCalls(step, batchSize, seqLen, acc, sharing, prefixLen) ==
    <<[batchSize |-> batchSize, inputSeqLen |-> seqLen,
       pastSeqLen |-> IF step = 0 THEN 0 ELSE acc]>>
    \o (IF step = 0 /\ sharing
        THEN <<[batchSize |-> batchSize, inputSeqLen |-> seqLen - prefixLen,
                pastSeqLen |-> prefixLen]>>
        ELSE <<>>)

\* lines 330-379: resize, the prefix split, the buffers, embedding, mask, position ids
PreLayerOps(step, batchSize, seqLen, inputLen, pastLen, sharing) ==
    <<Op("resize", -1, NoBuf, NoBuf, seqLen)>>
    \o (IF step = 0 /\ sharing
        THEN <<Op("getPositionIds", -1, NoBuf, NoBuf, pastLen),
               Op("resize", -1, NoBuf, NoBuf, inputLen)>>
        ELSE <<>>)
    \o (IF step = 0 THEN <<Op("prepareBuffers", -1, NoBuf, NoBuf, 0)>> ELSE <<>>)
    \o <<Op("embeddingForward", -1, NoBuf, "embBuf", batchSize * inputLen),
         Op("prepareAttnMask", -1, NoBuf, NoBuf, step + (IF sharing THEN 1 ELSE 0)),
         Op("getPositionIds", -1, NoBuf, NoBuf, inputLen)>>

\* lines 531-534 and 548-551: the rows given to the final LN and to the predictor
LogitRows(batchSize, seqLen, logitsAll) ==
    IF ~logitsAll THEN batchSize ELSE batchSize * seqLen

\* lines 505-582: the last rows, final normalization, projection, beam replication
PostLayerOps(step, userSideBS, beamSize, batchSize, seqLen, inputLen, logitsAll) ==
    (IF inputLen > 1 /\ ~logitsAll
     THEN <<Op("copyLastRows", -1, "embBuf", "outBuf", batchSize)>> ELSE <<>>)
    \o <<Op("lastLayerNormForward", -1,
            IF inputLen > 1 /\ ~logitsAll THEN "outBuf" ELSE "embBuf", "embBuf",
            LogitRows(batchSize, seqLen, logitsAll)),
         Op("predictorForward", -1, "embBuf", "outBuf",
            LogitRows(batchSize, seqLen, logitsAll))>>
    \o (IF step = 0 /\ beamSize > 1
        THEN <<Op("replicateBeams", -1, "outBuf", "outBuf", userSideBS * beamSize)>>
        ELSE <<>>)

(***************************************************************************)
(* forward: the rows of the final normalization, the logits rows and the   *)
(* activation buffer.                                                      *)
(***************************************************************************)
\* A variant that never gathers the last rows: the normalization reads the
\* first rows of embBuf.
LnInRowsNoGather(batchSize, seqLen, inputLen, logitsAll) ==
    [k \in 1..LogitRows(batchSize, seqLen, logitsAll) |-> k - 1]

\* lines 507-515 and 531-534: the activation rows (rows of embBuf, from 0) the
\* final normalization reads; with inputSeqLen > 1 and not logitsAll row
\* (b + 1) * inputSeqLen - 1 is first copied to row b of outBuf
LnInRows(batchSize, seqLen, inputLen, logitsAll) ==
    IF inputLen > 1 /\ ~logitsAll
    THEN [b \in 1..batchSize |-> b * inputLen - 1]
    ELSE [k \in 1..LogitRows(batchSize, seqLen, logitsAll) |-> k - 1]

\* lines 576-580: the rows of the beams of prompt b are overwritten by row b
CopyToBeams(rows, b, beamSize) ==
    [idx \in 1..Len(rows) |->
        IF (idx - 1) \in (b * beamSize)..((b + 1) * beamSize - 1) /\ (idx - 1) # b
        THEN rows[b + 1]
        ELSE rows[idx]]

RECURSIVE ReplicateUp(_, _, _, _)
ReplicateUp(rows, b, userSideBS, beamSize) ==
    IF b >= userSideBS THEN rows
    ELSE ReplicateUp(CopyToBeams(rows, b, beamSize), b + 1, userSideBS, beamSize)

\* A variant that replicates the prompts from the first to the last.
ReplicateBeamsFirstToLast(rows, userSideBS, beamSize) ==
    ReplicateUp(rows, 0, userSideBS, beamSize)

\* line 573: for (b = userSideBS - 1; b >= 0; --b)
RECURSIVE ReplicateDown(_, _, _)
ReplicateDown(rows, b, beamSize) ==
    IF b < 0 THEN rows
    ELSE ReplicateDown(CopyToBeams(rows, b, beamSize), b - 1, beamSize)

\* lines 572-582: the replication of the logits rows over the beams
ReplicateBeams(rows, userSideBS, beamSize) ==
    ReplicateDown(rows, userSideBS - 1, beamSize)

\* lines 546-582: the predictor writes one logits row per normalized row into
\* finalOut; at step 0 with beams the rows are then replicated
FinalOutRows(lnRows, step, userSideBS, beamSize) ==
    IF step = 0 /\ beamSize > 1
    THEN LET len == IF Len(lnRows) > userSideBS * beamSize
                    THEN Len(lnRows) ELSE userSideBS * beamSize
             written == [k \in 1..len |-> IF k <= Len(lnRows) THEN lnRows[k] ELSE -1]
         IN  ReplicateBeams(written, userSideBS, beamSize)
    ELSE lnRows

\* xft::Matrix::Resize (not among the sources; specification 3: resized,
\* never shrunk)
MatrixResize(cap, rows, cols) ==
    IF rows * cols > cap THEN rows * cols ELSE cap

\* DistLinear::getSplitSize (not among the sources): the vocabulary shard of
\* one rank
SplitSize(size) == (VocabSize + size - 1) \div size

\* lines 876-895: the size prepareBuffers gives to actBuffers
PrepareBuffers(cap, batchSize, seqLen, userSideBS, beamSize, logitsAll) ==
    LET logitsLen == IF logitsAll THEN batchSize * seqLen ELSE userSideBS * beamSize
        actRows == batchSize * seqLen
        outRows == IF logitsLen * VocabSize > actRows * HiddenSize
                   THEN (logitsLen * VocabSize) \div HiddenSize + 1
                   ELSE actRows
    IN  MatrixResize(cap, actRows + outRows, HiddenSize)

(***************************************************************************)
(* Construction: CommonDecoder::CommonDecoder and getDecoderContext.       *)
(***************************************************************************)
NoCfg == [quantQweight |-> "-", quantScales |-> "-", quantZeros |-> "-", quantGroupsize |-> 0,
          srcWeightType |-> "-", attnWeightType |-> "-", layers |-> 0, ppSize |-> 0,
          hiddenSize |-> 0, attHeadNum |-> 0, kvHeadNum |-> 0, imSize |-> 0]

NoContext == [hiddenSize |-> 0, attHeadNum |-> 0, kvHeadNum |-> 0, intermediateSize |-> 0,
              tpRank |-> -1, layers |-> 0, ppSize |-> 0]

NoReq == [hiddenSize |-> 0, attHeadNum |-> 0, kvHeadNum |-> 0, imSize |-> 0, layers |-> 0]

\* messenger.getRank() of the modelled process (line 821)
MyRank == 0

\* lines 223-227: the weight type before the quantization descriptors are read
BaseWeightType(srcWeightType, attnWeightType) ==
    IF attnWeightType = srcWeightType /\ attnWeightType \in {"bf16", "fp16", "fp8_e4m3"}
    THEN srcWeightType
    ELSE "fp32"

\* line 229: the configuration asks for quantized weights
IsQuantized(quantQweight) ==
    quantQweight = "int8" \/ quantQweight = "uint4"

\* lines 229-230: the weight type after the quantization descriptors
QuantWeightType(quantQweight, base) ==
    IF IsQuantized(quantQweight)
    THEN (IF quantQweight = "int8" THEN "int8" ELSE "int4")
    ELSE base

\* A variant that accepts any group size.
QuantTripleOkAnyGroup(quantQweight, quantScales, quantZeros, quantGroupsize) ==
    IsQuantized(quantQweight) => (quantScales = "fp32" /\ quantZeros = "fp32")

\* lines 229-234: the three REQUIRES of a quantized configuration
QuantTripleOk(quantQweight, quantScales, quantZeros, quantGroupsize) ==
    IsQuantized(quantQweight) =>
        (quantScales = "fp32" /\ quantZeros = "fp32" /\ quantGroupsize = -1)

\* A variant that accepts any layer count.
LayersDivideAlways(nLayers, ppSize) ==
    TRUE

\* line 280: layers % ctx->ppSize
LayersDivide(nLayers, ppSize) ==
    nLayers % ppSize = 0

\* A variant that takes every request for compatible.
ContextCompatibleAlways(c, hiddenSize, attHeadNum, kvHeadNum, imSize, tpRank) ==
    TRUE

\* lines 827-829: the test of an existing context against the request
ContextCompatible(c, hiddenSize, attHeadNum, kvHeadNum, imSize, tpRank) ==
    /\ c.hiddenSize = hiddenSize
    /\ c.attHeadNum = attHeadNum
    /\ c.kvHeadNum = kvHeadNum
    /\ c.intermediateSize = imSize
    /\ c.tpRank = tpRank

\* lines 849-851: new DecoderContext(...)
NewContext(nLayers, hiddenSize, attHeadNum, kvHeadNum, imSize, tpRank, ppSize) ==
    [hiddenSize |-> hiddenSize, attHeadNum |-> attHeadNum, kvHeadNum |-> kvHeadNum,
     intermediateSize |-> imSize, tpRank |-> tpRank, layers |-> nLayers, ppSize |-> ppSize]

\* lines 815-855: getDecoderContext: what it returns ("existing", "created" or
\* "exit"), the context afterwards and the contexts created
DeriveContext(c, created, nLayers, hiddenSize, attHeadNum, kvHeadNum, imSize, tpRank, ppSize) ==
    IF c # NoContext
    THEN IF ContextCompatible(c, hiddenSize, attHeadNum, kvHeadNum, imSize, tpRank)
         THEN [got |-> "existing", context |-> c, created |-> created]
         ELSE [got |-> "exit", context |-> c, created |-> created]
    ELSE [got |-> "created",
          context |-> NewContext(nLayers, hiddenSize, attHeadNum, kvHeadNum, imSize, tpRank,
                                 ppSize),
          created |-> created + 1]

\* The steps of a constructor that runs to its end.
AllSteps == <<"quant", "context", "layers", "decoderBlock", "kvConfigure", "predictor">>

\* A decoder constructed from a plain configuration of nLayers layers.
Built(nLayers, ppSize) ==
    /\ phase = "constructed"
    /\ cfg = [quantQweight |-> "", quantScales |-> "", quantZeros |-> "", quantGroupsize |-> -1,
              srcWeightType |-> "fp32", attnWeightType |-> "fp32", layers |-> nLayers,
              ppSize |-> ppSize, hiddenSize |-> HiddenSize, attHeadNum |-> 1,
              kvHeadNum |-> 1, imSize |-> 1]
    /\ dt = "fp32"
    /\ context = NewContext(nLayers, HiddenSize, 1, 1, 1, MyRank, ppSize)
    /\ ctxCreated = 1
    /\ steps = AllSteps
    /\ req = NoReq
    /\ ctxGot = "none"
    /\ decoders = 1
    /\ kvConfigures = 1

(***************************************************************************)
(* Spec: the calls on one decoder object.                                  *)
(***************************************************************************)
TypeOK ==
    /\ accSeqLen \in Nat
    /\ initSeqLen \in Nat
    /\ prefixSeqLen \in Nat
    /\ prefixSharing \in BOOLEAN
    /\ workers \in 1..(MaxTP + 1)
    /\ attnMlpParallel \in BOOLEAN
    /\ layers \in 1..(MaxLayers + 1)


\* ctx->ppSize of the constructed decoder: the stages of the pipeline
PPSize == context.ppSize

Stages == 0..(PPSize - 1)
SeqIds == 1..MaxSeqId

\* A registry slot holding no record.
NoMeta == [seqLen |-> -1, pastSeqLen |-> -1, buf |-> -1]
NoMsg == [kind |-> "none", val |-> -1, serial |-> -1]

\* No call has been made on the decoder and the caches hold nothing.
NoEvent == [name |-> "none", ids |-> <<>>, idx |-> <<>>, args |-> <<>>]

KvIdle ==
    /\ kvCache = <<>>
    /\ prefixKV = <<>>
    /\ kvEvent = NoEvent

\* No forward(seqs, logitsAll) call yet.
NoBatch == [list |-> <<>>, logitsAll |-> FALSE, called |-> FALSE]

NoRetSeqs == [ptr |-> "none", splitOffset |-> 0, splitSize |-> 0]

CBIdle ==
    /\ seqs = NoBatch
    /\ ctxSeqs = [totInputSeqLen |-> 0, totAccSeqLen |-> 0]
    /\ retSeqs = NoRetSeqs

\* No prepareAttnMask call yet.
NoMaskCall == [called |-> FALSE, step |-> 0, batchSize |-> 0, seqLen |-> 0, accSeqLen |-> 0]

\* common_decoder.h lines 1003-1004 (maskSize, attnMask) before any call
OptIdle ==
    /\ maskSize = 0
    /\ attnMask = <<>>
    /\ positions = <<>>
    /\ optCall = NoMaskCall

\* No message is in flight.
P2PIdle ==
    /\ world = [ppSize |-> 1, tpSize |-> 1, calls |-> <<>>]
    /\ wire = <<>>
    /\ posted = <<>>
    /\ delivered = {}

\* The state of the ranks before any forward call.
PPIdle ==
    /\ pc = [p \in Stages |-> "idle"]
    /\ call = [p \in Stages |-> [seqLen |-> 0, step |-> 0, pastSeqLen |-> 0]]
    /\ ppAcc = [p \in Stages |-> 0]
    /\ embBuf = [p \in Stages |-> 0]
    /\ recvSeqID = [p \in Stages |-> -1]
    /\ sequenceID = [p \in Stages |-> -1]
    /\ taskQ = [p \in Stages |-> <<>>]
    /\ inputQ = [p \in Stages |-> <<>>]
    /\ pool = [p \in Stages |-> [id \in SeqIds |-> NoMeta]]
    /\ chan = [p \in Stages |-> <<>>]
    /\ trace = [p \in Stages |-> <<>>]
    /\ ppRet = [p \in Stages |-> "none"]
    /\ shutdownRequested = FALSE
    /\ origin = [id \in SeqIds |-> -1]
    /\ nSubmits = 0
    /\ metaCreated = [p \in Stages |-> [id \in SeqIds |-> 0]]
    /\ callNo = [p \in Stages |-> 0]
    /\ rcvd = [p \in Stages |-> <<NoMsg, NoMsg>>]

\* lines 208-212, 237-240 of the constructor
Init ==
    /\ accSeqLen = 0
    /\ initSeqLen = 0
    /\ prefixSeqLen = 0
    /\ prefixSharing = FALSE
    /\ ctx = [batchSize |-> 0, inputSeqLen |-> 0, pastSeqLen |-> 0]
    /\ workers \in 1..MaxTP
    /\ attnMlpParallel \in BOOLEAN
    /\ layers \in 1..MaxLayers
    /\ ops = <<>>
    /\ ret = NoRet
    /\ tpCalls = [r \in 0..(workers - 1) |-> <<>>]
    /\ lnIn = <<>>
    /\ finalOut = <<>>
    /\ actCap = 0
    /\ lastCall = NoCall
    /\ genDims = NoDims
    /\ genKv = <<>>
    /\ callLens = <<>>
    /\ genByStep0 = FALSE
    /\ Built(layers, 1)
    /\ PPIdle
    /\ CBIdle
    /\ OptIdle
    /\ KvIdle
    /\ P2PIdle

\* lines 315-589 of a build without PIPELINE_PARALLEL: what the call does to the
\* decoder object
ForwardBody(userSideBS, beamSize, seqLen, step, logitsAll) ==
    LET batchSize == BatchSizeOf(step, userSideBS, beamSize)
        pastLen == PastSeqLenOf(step, accSeqLen, prefixSharing, prefixSeqLen)
        inputLen == InputSeqLenOf(step, seqLen, prefixSharing, prefixSeqLen)
        n == batchSize * inputLen * HiddenSize
        resizes == ResizeCalls(step, batchSize, seqLen, accSeqLen, prefixSharing, prefixSeqLen)
    IN  /\ AccAfter(step, accSeqLen, seqLen) <= MaxAcc
        \* the steps of one generation are called with the dims of its first call
        /\ (step > 0 /\ genDims # NoDims) =>
               (userSideBS = genDims.userSideBS /\ beamSize = genDims.beamSize)
        /\ initSeqLen' = IF step = 0 THEN seqLen ELSE initSeqLen
        /\ accSeqLen' = AccAfter(step, accSeqLen, seqLen)
        \* the context holds what the last resize of the call gave it
        /\ ctx' = resizes[Len(resizes)]
        /\ ops' = PreLayerOps(step, batchSize, seqLen, inputLen, pastLen, prefixSharing)
                  \o LayerLoop(0, layers, step, userSideBS, beamSize, seqLen, pastLen,
                               prefixSharing, prefixSeqLen, workers, attnMlpParallel, n)
                  \o PostLayerOps(step, userSideBS, beamSize, batchSize, seqLen, inputLen,
                                  logitsAll)
        /\ ret' = [ptr |-> "finalOut", rows |-> LogitRows(batchSize, seqLen, logitsAll)]
        /\ tpCalls' = [r \in 0..(workers - 1) |->
                         RankLayerCalls(r, layers, step, userSideBS, beamSize, seqLen, pastLen,
                                        prefixSharing, prefixSeqLen, workers, attnMlpParallel,
                                        n)]
        /\ lnIn' = LnInRows(batchSize, seqLen, inputLen, logitsAll)
        /\ finalOut' = FinalOutRows(LnInRows(batchSize, seqLen, inputLen, logitsAll),
                                   step, userSideBS, beamSize)
        /\ actCap' = IF step = 0
                     THEN PrepareBuffers(actCap, batchSize, inputLen, userSideBS, beamSize,
                                         logitsAll)
                     ELSE actCap
        /\ lastCall' = [userSideBS |-> userSideBS, beamSize |-> beamSize, seqLen |-> seqLen,
                        step |-> step, logitsAll |-> logitsAll,
                        sharing |-> prefixSharing, prefixLen |-> prefixSeqLen]
        /\ genKv' = (IF step = 0 THEN <<>> ELSE genKv)
                     \o KvCallsOf(LayerLoop(0, layers, step, userSideBS, beamSize, seqLen,
                                            pastLen, prefixSharing, prefixSeqLen, workers,
                                            attnMlpParallel, n), step)
        /\ genDims' = IF step = 0 \/ genDims = NoDims
                      THEN [userSideBS |-> userSideBS, beamSize |-> beamSize]
                      ELSE genDims
        /\ callLens' = IF step = 0 THEN <<seqLen>> ELSE Append(callLens, seqLen)
        /\ genByStep0' = IF step = 0 THEN TRUE ELSE genByStep0
        /\ UNCHANGED <<prefixSeqLen, prefixSharing, workers, attnMlpParallel, layers>>

\* lines 315-589: a forward call that has at least one new token per row
ForwardCall(userSideBS, beamSize, seqLen, step, logitsAll) ==
    /\ InputSeqLenOf(step, seqLen, prefixSharing, prefixSeqLen) >= 1
    /\ ForwardBody(userSideBS, beamSize, seqLen, step, logitsAll)

\* forward, the contents of the KV cache left aside
Forward(userSideBS, beamSize, seqLen, step, logitsAll) ==
    /\ ForwardCall(userSideBS, beamSize, seqLen, step, logitsAll)
    /\ UNCHANGED <<ppVars, ctorVars, kvVars, p2pVars, cbVars, optVars>>

\* lines 695-699 and 703-771: setPrefix and the prefixForward it calls: what the
\* call does to the decoder object
SetPrefixCall(seqLen) ==
    /\ prefixSharing' = TRUE
    /\ prefixSeqLen' = seqLen
    /\ ctx' = [batchSize |-> 1, inputSeqLen |-> seqLen, pastSeqLen |-> 0]
    /\ ops' = <<Op("resize", -1, NoBuf, NoBuf, seqLen),
                Op("prepareBuffers", -1, NoBuf, NoBuf, 1),
                Op("embeddingForward", -1, NoBuf, "embBuf", seqLen),
                Op("prepareAttnMask", -1, NoBuf, NoBuf, 0),
                Op("getPositionIds", -1, NoBuf, NoBuf, seqLen)>>
              \o PrefixLayerLoop(0, layers, seqLen, workers, attnMlpParallel,
                                 seqLen * HiddenSize)
    /\ ret' = NoRet
    /\ tpCalls' = [r \in 0..(workers - 1) |->
                     PrefixLayerLoop(0, layers, seqLen, workers, attnMlpParallel,
                                     seqLen * HiddenSize)]
    /\ actCap' = PrepareBuffers(actCap, 1, seqLen, 1, 1, FALSE)
    \* the buffers of the last forward call are overwritten
    /\ lnIn' = <<>>
    /\ finalOut' = <<>>
    /\ lastCall' = NoCall
    /\ UNCHANGED <<accSeqLen, initSeqLen, workers, attnMlpParallel, layers,
                   genDims, genKv, callLens, genByStep0>>

\* setPrefix, the contents of the KV cache left aside
SetPrefix(seqLen) ==
    /\ SetPrefixCall(seqLen)
    /\ UNCHANGED <<ppVars, ctorVars, kvVars, p2pVars, cbVars, optVars>>

\* line 701: what the call does to the decoder object
UnsetPrefixCall ==
    /\ prefixSharing
    /\ prefixSharing' = FALSE
    /\ UNCHANGED <<accSeqLen, initSeqLen, prefixSeqLen, ctx, workers, attnMlpParallel,
                   layers, ops, ret, tpCalls, lnIn, finalOut, actCap, lastCall, genDims,
                   genKv, callLens, genByStep0>>

\* unsetPrefix
UnsetPrefix ==
    /\ UnsetPrefixCall
    /\ UNCHANGED <<ppVars, ctorVars, kvVars, p2pVars, cbVars, optVars>>

\* A variant that sets the initial length only.
SkipFirstStepInitOnly(n) ==
    /\ initSeqLen' = n
    /\ callLens' = <<>>
    /\ genByStep0' = FALSE
    /\ genDims' = NoDims
    /\ genKv' = <<>>
    /\ UNCHANGED <<accSeqLen, prefixSeqLen, prefixSharing, ctx, workers, attnMlpParallel,
                   layers, ops, ret, tpCalls, lnIn, finalOut, actCap, lastCall>>
    /\ UNCHANGED <<ppVars, ctorVars, kvVars, p2pVars, cbVars, optVars>>

\* lines 806-810
SkipFirstStep(n) ==
    /\ initSeqLen' = n
    /\ accSeqLen' = n
    /\ callLens' = <<>>
    /\ genByStep0' = FALSE
    /\ genDims' = NoDims
    /\ genKv' = <<>>
    /\ UNCHANGED <<prefixSeqLen, prefixSharing, ctx, workers, attnMlpParallel, layers,
                   ops, ret, tpCalls, lnIn, finalOut, actCap, lastCall>>
    /\ UNCHANGED <<ppVars, ctorVars, kvVars, p2pVars, cbVars, optVars>>

Next ==
    \/ \E userSideBS \in 1..MaxBS, beamSize \in 1..MaxBeam, seqLen \in 1..MaxSeqLen,
          step \in 0..MaxStep, logitsAll \in BOOLEAN :
          Forward(userSideBS, beamSize, seqLen, step, logitsAll)
    \/ \E seqLen \in 1..MaxPrefix : SetPrefix(seqLen)
    \/ UnsetPrefix
    \/ \E n \in 1..MaxSeqLen : SkipFirstStep(n)

Spec == Init /\ [][Next]_vars


(***************************************************************************)
(* SpecPP: the pipeline.  Every stage is one rank of a PIPELINE_PARALLEL   *)
(* build (the ranks of one TP group run the same control flow, each with   *)
(* queues and a registry of its own, so one rank per stage is modelled).   *)
(* SequencePool, TaskWaitingQueue and InputQueue are declared in           *)
(* sequence.h, which is not among the sources: their operations are        *)
(* modelled from the specification (4.4).                                  *)
(***************************************************************************)
\* SequencePool::has
PoolHas(pl, id) == pl[id] # NoMeta

\* SequencePool::add: the registry is keyed by the sequence identifier
PoolAdd(pl, id, meta) == [pl EXCEPT ![id] = meta]

\* TaskWaitingQueue::push
QueuePush(q, x) == Append(q, x)

\* TaskWaitingQueue::isFull
QueueIsFull(q) == Len(q) >= QueueCap

\* line 384: the stage has a previous stage to receive from
ReceivesFromPrev(p) ==
    PPSize > 1 /\ p > 0

\* A variant of the test of line 493 that never sends onward.
SendsOnwardNever(p) ==
    FALSE

\* line 493: the stage has a next stage to send to
SendsOnward(p) ==
    PPSize > 1 /\ p < PPSize - 1

\* A variant that sends the payload before the identifier.
OnwardMessagesPayloadFirst(sid, buf, serial) ==
    <<[kind |-> "data", val |-> buf, serial |-> serial],
      [kind |-> "id", val |-> sid, serial |-> serial]>>

\* lines 497-498: the two sends, in the order they are issued
OnwardMessages(sid, buf, serial) ==
    <<[kind |-> "id", val |-> sid, serial |-> serial],
      [kind |-> "data", val |-> buf, serial |-> serial]>>

\* A variant that registers the received group and does not push it.
AdmitReceivedNoPush(pl, q, created, sid, seqLen, pastLen, buf) ==
    IF ~PoolHas(pl, sid)
    THEN [pool |-> PoolAdd(pl, sid, [seqLen |-> seqLen, pastSeqLen |-> pastLen, buf |-> buf]),
          created |-> [created EXCEPT ![sid] = @ + 1],
          q |-> q]
    ELSE [pool |-> pl, created |-> created, q |-> q]

\* A variant that creates and registers a record without asking has().
AdmitReceivedNoHasCheck(pl, q, created, sid, seqLen, pastLen, buf) ==
    [pool |-> PoolAdd(pl, sid, [seqLen |-> seqLen, pastSeqLen |-> pastLen, buf |-> buf]),
     created |-> [created EXCEPT ![sid] = @ + 1],
     q |-> QueuePush(q, sid)]

\* lines 394-400: register the group just received (if new) and push it
AdmitReceived(pl, q, created, sid, seqLen, pastLen, buf) ==
    IF ~PoolHas(pl, sid)
    THEN [pool |-> PoolAdd(pl, sid, [seqLen |-> seqLen, pastSeqLen |-> pastLen, buf |-> buf]),
          created |-> [created EXCEPT ![sid] = @ + 1],
          q |-> QueuePush(q, sid)]
    ELSE [pool |-> pl, created |-> created, q |-> QueuePush(q, sid)]

\* A variant that admits an inbound request without asking isFull().
AdmitInboundNoFullCheck(inQ, q, pl, pastLen, buf) ==
    IF inQ # <<>>
    THEN [inQ |-> Tail(inQ),
          pool |-> PoolAdd(pl, Head(inQ),
                           [seqLen |-> 0, pastSeqLen |-> pastLen, buf |-> buf]),
          q |-> QueuePush(q, Head(inQ))]
    ELSE [inQ |-> inQ, pool |-> pl, q |-> q]

\* A variant that pops an inbound request and pushes it without registering it.
AdmitInboundNoRegister(inQ, q, pl, pastLen, buf) ==
    IF inQ # <<>> /\ ~QueueIsFull(q)
    THEN [inQ |-> Tail(inQ), pool |-> pl, q |-> QueuePush(q, Head(inQ))]
    ELSE [inQ |-> inQ, pool |-> pl, q |-> q]

\* lines 403-412: admit one inbound request if the ready queue has room
AdmitInbound(inQ, q, pl, pastLen, buf) ==
    IF inQ # <<>> /\ ~QueueIsFull(q)
    THEN [inQ |-> Tail(inQ),
          pool |-> PoolAdd(pl, Head(inQ),
                           [seqLen |-> 0, pastSeqLen |-> pastLen, buf |-> buf]),
          q |-> QueuePush(q, Head(inQ))]
    ELSE [inQ |-> inQ, pool |-> pl, q |-> q]

\* A variant that takes the front group and empties the ready queue.
PopRunningDrain(q) ==
    [task |-> Head(q), rest |-> <<>>]

\* lines 416-420: runningTask = TaskWaitingQueue::pop()
PopRunning(q) ==
    [task |-> Head(q), rest |-> Tail(q)]

QueueIds(q) == {q[k] : k \in 1..Len(q)}

\* lines 362-375: what a call does before it can block
PreSteps == <<"embeddingForward", "prepareAttnMask", "getPositionIds">>

\* A variant in which the layers run before the running group is popped.
RunStepsLayersFirst(sends) ==
    IF sends THEN <<"layers", "pop">>
    ELSE <<"layers", "pop", "lastLayerNormForward", "predictorForward">>

\* lines 416-487 and 505-551: the pop of the running group, the layers the
\* stage owns and, on a stage that does not send onward, the final
\* normalization and the projection
RunSteps(sends) ==
    IF sends THEN <<"pop", "layers">>
    ELSE <<"pop", "layers", "lastLayerNormForward", "predictorForward">>

\* The length of the calls of SpecPP: a prompt at step 0, one token later.
SeqLenOfStep(step) == IF step = 0 THEN PromptLen ELSE 1

\* The ranks of a pipeline of n stages, each owning one layer, before any call.
InitPPOf(n) ==
    /\ Built(n, n)
    /\ accSeqLen = 0
    /\ initSeqLen = 0
    /\ prefixSeqLen = 0
    /\ prefixSharing = FALSE
    /\ ctx = [batchSize |-> 0, inputSeqLen |-> 0, pastSeqLen |-> 0]
    /\ workers = 1
    /\ attnMlpParallel = FALSE
    /\ layers = 1
    /\ ops = <<>>
    /\ ret = NoRet
    /\ tpCalls = [r \in 0..0 |-> <<>>]
    /\ lnIn = <<>>
    /\ finalOut = <<>>
    /\ actCap = 0
    /\ lastCall = NoCall
    /\ genDims = NoDims
    /\ genKv = <<>>
    /\ callLens = <<>>
    /\ genByStep0 = FALSE
    /\ PPIdle
    /\ CBIdle
    /\ OptIdle
    /\ KvIdle
    /\ P2PIdle

InitPP == InitPPOf(NumStages)

\* A pipeline with one stage more: it has a stage that both receives and sends.
InitPPMid == InitPPOf(NumStages + 1)

\* The requests pushed in one run and the steps the calls are made with, by
\* the length of the pipeline.
SubmitCap == IF PPSize > NumStages THEN MidSubmits ELSE MaxSubmits

StepCap == IF PPSize > NumStages THEN MidMaxStep ELSE MaxStep

\* The caller of stage p creates a sequence group and pushes it to InputQueue
\* (between forward calls: the rank is single-threaded).  Distinct groups
\* carry distinct identifiers; a group may be submitted again, for its next
\* step, once it has left the stage's queues.  (The record's own seqLen is the
\* caller's business: forward never reads or writes it, and it is held as 0.)
Submit(p, id) ==
    /\ pc[p] = "idle"
    /\ nSubmits < SubmitCap
    /\ origin[id] \in {-1, p}
    /\ id \notin QueueIds(inputQ[p])
    /\ id \notin QueueIds(taskQ[p])
    /\ inputQ' = [inputQ EXCEPT ![p] = Append(@, id)]
    /\ origin' = [origin EXCEPT ![id] = p]
    /\ nSubmits' = nSubmits + 1
    /\ UNCHANGED <<pc, call, ppAcc, embBuf, recvSeqID, sequenceID, taskQ, pool, chan, trace,
                   ppRet, shutdownRequested, metaCreated, callNo, rcvd>>
    /\ UNCHANGED <<decVars, ctorVars, kvVars, p2pVars, cbVars, optVars>>

\* The serving loop asks the ranks to stop.
RequestShutdown ==
    /\ ~shutdownRequested
    /\ shutdownRequested' = TRUE
    /\ UNCHANGED <<pc, call, ppAcc, embBuf, recvSeqID, sequenceID, taskQ, inputQ, pool, chan,
                   trace, ppRet, origin, nSubmits, metaCreated, callNo, rcvd>>
    /\ UNCHANGED <<decVars, ctorVars, kvVars, p2pVars, cbVars, optVars>>

\* lines 315-412 up to the first point where the call can block: the shapes,
\* embedding, mask and position ids; on the first stage also the admission of
\* an inbound request (lines 403-412).
Begin(p, step) ==
    LET seqLen == SeqLenOfStep(step)
        pastLen == PastSeqLenOf(step, ppAcc[p], FALSE, 0)
        buf == IF ReceivesFromPrev(p) THEN 0 ELSE callNo[p] + 1
        adm == AdmitInbound(inputQ[p], taskQ[p], pool[p], pastLen, buf)
    IN  /\ pc[p] = "idle"
        /\ step <= StepCap
        /\ AccAfter(step, ppAcc[p], seqLen) <= MaxAcc
        /\ call' = [call EXCEPT ![p] = [seqLen |-> seqLen, step |-> step,
                                        pastSeqLen |-> pastLen]]
        /\ ppAcc' = [ppAcc EXCEPT ![p] = AccAfter(step, @, seqLen)]
        /\ embBuf' = [embBuf EXCEPT ![p] = buf]
        /\ callNo' = [callNo EXCEPT ![p] = @ + 1]
        /\ ppRet' = [ppRet EXCEPT ![p] = "none"]
        /\ sequenceID' = [sequenceID EXCEPT ![p] = -1]
        /\ recvSeqID' = [recvSeqID EXCEPT ![p] = -1]
        /\ rcvd' = [rcvd EXCEPT ![p] = <<NoMsg, NoMsg>>]
        /\ IF ReceivesFromPrev(p)
           THEN /\ pc' = [pc EXCEPT ![p] = "recvId"]
                /\ trace' = [trace EXCEPT ![p] = PreSteps]
                /\ UNCHANGED <<inputQ, taskQ, pool>>
           ELSE /\ pc' = [pc EXCEPT ![p] = "wait"]
                /\ trace' = [trace EXCEPT ![p] = Append(PreSteps, "admission")]
                /\ inputQ' = [inputQ EXCEPT ![p] = adm.inQ]
                /\ taskQ' = [taskQ EXCEPT ![p] = adm.q]
                /\ pool' = [pool EXCEPT ![p] = adm.pool]
        /\ UNCHANGED <<chan, shutdownRequested, origin, nSubmits, metaCreated>>
        /\ UNCHANGED <<decVars, ctorVars, kvVars, p2pVars, cbVars, optVars>>

\* line 389: MPI_Recv of the identifier (it matches the oldest message of the
\* previous stage, whatever that message holds)
RecvId(p) ==
    /\ pc[p] = "recvId"
    /\ chan[p] # <<>>
    /\ recvSeqID' = [recvSeqID EXCEPT ![p] = Head(chan[p]).val]
    /\ rcvd' = [rcvd EXCEPT ![p] = <<Head(chan[p]), NoMsg>>]
    /\ chan' = [chan EXCEPT ![p] = Tail(@)]
    /\ trace' = [trace EXCEPT ![p] = Append(@, "recvId")]
    /\ pc' = [pc EXCEPT ![p] = "recvData"]
    /\ UNCHANGED <<call, ppAcc, embBuf, sequenceID, taskQ, inputQ, pool, ppRet,
                   shutdownRequested, origin, nSubmits, metaCreated, callNo>>
    /\ UNCHANGED <<decVars, ctorVars, kvVars, p2pVars, cbVars, optVars>>

\* lines 391-412: MPI_Recv of the payload into embBuf, the registration and
\* push of the received group, the admission of an inbound request
RecvData(p) ==
    LET m == Head(chan[p])
        sid == recvSeqID[p]
        got == AdmitReceived(pool[p], taskQ[p], metaCreated[p], sid, call[p].seqLen,
                             call[p].pastSeqLen, m.val)
        adm == AdmitInbound(inputQ[p], got.q, got.pool, call[p].pastSeqLen, m.val)
    IN  /\ pc[p] = "recvData"
        /\ chan[p] # <<>>
        /\ sid \in SeqIds
        /\ chan' = [chan EXCEPT ![p] = Tail(@)]
        /\ rcvd' = [rcvd EXCEPT ![p] = <<@[1], m>>]
        /\ embBuf' = [embBuf EXCEPT ![p] = m.val]
        /\ metaCreated' = [metaCreated EXCEPT ![p] = got.created]
        /\ inputQ' = [inputQ EXCEPT ![p] = adm.inQ]
        /\ taskQ' = [taskQ EXCEPT ![p] = adm.q]
        /\ pool' = [pool EXCEPT ![p] = adm.pool]
        /\ trace' = [trace EXCEPT ![p] = @ \o <<"recvData", "admission">>]
        /\ pc' = [pc EXCEPT ![p] = "wait"]
        /\ UNCHANGED <<call, ppAcc, recvSeqID, sequenceID, ppRet, shutdownRequested, origin,
                       nSubmits, callNo>>
        /\ UNCHANGED <<decVars, ctorVars, kvVars, p2pVars, cbVars, optVars>>

\* line 414, the ready queue empty: one more turn of the busy wait
Spin(p) ==
    /\ pc[p] = "wait"
    /\ taskQ[p] = <<>>
    /\ UNCHANGED <<ppVars, ctorVars, kvVars, p2pVars, cbVars, optVars>>
    /\ UNCHANGED decVars

\* lines 414-490 and 505-588: the wait ends, the front group is popped and
\* the layers run; the last stage goes on to the final normalization and the
\* projection and returns the logits
RunTick(p) ==
    LET popped == PopRunning(taskQ[p])
    IN  /\ pc[p] = "wait"
        /\ taskQ[p] # <<>>
        /\ taskQ' = [taskQ EXCEPT ![p] = popped.rest]
        /\ sequenceID' = [sequenceID EXCEPT ![p] = popped.task]
        /\ IF SendsOnward(p)
           THEN /\ pc' = [pc EXCEPT ![p] = "sendId"]
                /\ trace' = [trace EXCEPT ![p] = @ \o RunSteps(TRUE)]
                /\ UNCHANGED ppRet
           ELSE /\ pc' = [pc EXCEPT ![p] = "idle"]
                /\ trace' = [trace EXCEPT ![p] = @ \o RunSteps(FALSE)]
                /\ ppRet' = [ppRet EXCEPT ![p] = "finalOut"]
        /\ UNCHANGED <<call, ppAcc, embBuf, recvSeqID, inputQ, pool, chan, shutdownRequested,
                       origin, nSubmits, metaCreated, callNo, rcvd>>
        /\ UNCHANGED <<decVars, ctorVars, kvVars, p2pVars, cbVars, optVars>>

\* line 497: MPI_Send of the identifier
SendId(p) ==
    /\ pc[p] = "sendId"
    /\ Len(chan[p + 1]) < ChanCap
    /\ chan' = [chan EXCEPT ![p + 1] =
                  Append(@, OnwardMessages(sequenceID[p], embBuf[p], callNo[p])[1])]
    /\ trace' = [trace EXCEPT ![p] = Append(@, "sendId")]
    /\ pc' = [pc EXCEPT ![p] = "sendData"]
    /\ UNCHANGED <<call, ppAcc, embBuf, recvSeqID, sequenceID, taskQ, inputQ, pool, ppRet,
                   shutdownRequested, origin, nSubmits, metaCreated, callNo, rcvd>>
    /\ UNCHANGED <<decVars, ctorVars, kvVars, p2pVars, cbVars, optVars>>

\* lines 498-501: MPI_Send of the payload, return (nullptr, 0, 0)
SendData(p) ==
    /\ pc[p] = "sendData"
    /\ Len(chan[p + 1]) < ChanCap
    /\ chan' = [chan EXCEPT ![p + 1] =
                  Append(@, OnwardMessages(sequenceID[p], embBuf[p], callNo[p])[2])]
    /\ trace' = [trace EXCEPT ![p] = Append(@, "sendData")]
    /\ ppRet' = [ppRet EXCEPT ![p] = "nullptr"]
    /\ pc' = [pc EXCEPT ![p] = "idle"]
    /\ UNCHANGED <<call, ppAcc, embBuf, recvSeqID, sequenceID, taskQ, inputQ, pool,
                   shutdownRequested, origin, nSubmits, metaCreated, callNo, rcvd>>
    /\ UNCHANGED <<decVars, ctorVars, kvVars, p2pVars, cbVars, optVars>>

NextPP ==
    \/ \E p \in Stages, id \in SeqIds : Submit(p, id)
    \/ RequestShutdown
    \/ \E p \in Stages, step \in 0..MaxStep : Begin(p, step)
    \/ \E p \in Stages : RecvId(p)
    \/ \E p \in Stages : RecvData(p)
    \/ \E p \in Stages : Spin(p)
    \/ \E p \in Stages : RunTick(p)
    \/ \E p \in Stages : SendId(p)
    \/ \E p \in Stages : SendData(p)

SpecPP == InitPP /\ [][NextPP]_vars

SpecPPMid == InitPPMid /\ [][NextPP]_vars

(***************************************************************************)
(* SpecLive: the pipeline of SpecPPMid in the run the serving loop makes:  *)
(* sequence groups enter at stage 0, whose caller pushes a group and then  *)
(* calls forward; every rank makes the same calls (line 316: the input has *)
(* been synced with the master), so a later stage makes its k-th call when *)
(* the stage before it has begun its k-th; all calls are prompt calls.     *)
(* Every rank is scheduled fairly.                                         *)
(***************************************************************************)
LiveStages == 0..NumStages

\* The caller of stage 0 creates a group and pushes it to InputQueue.
LiveSubmit(id) ==
    /\ inputQ[0] = <<>>
    /\ Submit(0, id)

\* The rank of stage p calls forward.
LiveBegin(p) ==
    /\ IF p = 0 THEN inputQ[0] # <<>> ELSE callNo[p] < callNo[p - 1]
    /\ Begin(p, 0)

NextLive ==
    \/ \E id \in SeqIds : LiveSubmit(id)
    \/ \E p \in LiveStages : LiveBegin(p)
    \/ \E p \in LiveStages : RecvId(p)
    \/ \E p \in LiveStages : RecvData(p)
    \/ \E p \in LiveStages : RunTick(p)
    \/ \E p \in LiveStages : SendId(p)
    \/ \E p \in LiveStages : SendData(p)

Fairness ==
    \A p \in LiveStages :
        /\ WF_vars(LiveBegin(p))
        /\ WF_vars(RecvId(p))
        /\ WF_vars(RecvData(p))
        /\ WF_vars(RunTick(p))
        /\ WF_vars(SendId(p))
        /\ WF_vars(SendData(p))

SpecLive == InitPPMid /\ [][NextLive]_vars /\ Fairness

(***************************************************************************)
(* SpecKV: the decoder and the contents of its KV cache.  KVCacheManager   *)
(* is not among the sources: its operations are modelled from the          *)
(* specification (4.2).  A slot is one batch row of a layer's cache, a     *)
(* sequence of positions, each holding the token cached there and the      *)
(* position id it was given.  The callers of SpecKV decode one token per   *)
(* step and use at most KvMaxSlots slots.                                  *)
(***************************************************************************)
Tokens == 0..MaxToken

\* A position nothing was written to.
NoEntry == [tok |-> -1, pos |-> -1]

\* The token rows (ids) of a call: rows sequences of n tokens each.
IdRows(rows, n) == [1..rows -> [1..n -> Tokens]]

\* getKey / getValue, the attention unit's positional append: the new tokens
\* go to the write offset past and get the position ids from past on; the
\* earlier positions are kept.
KvAppend(slot, past, toks) ==
    [t \in 1..(past + Len(toks)) |->
        IF t <= past
        THEN (IF t <= Len(slot) THEN slot[t] ELSE NoEntry)
        ELSE [tok |-> toks[t - past], pos |-> t - 1]]

\* forwardAttention on the batch rows of one layer's cache
AttentionAppend(slots, batchSize, past, rows) ==
    [b \in 1..(IF Len(slots) > batchSize THEN Len(slots) ELSE batchSize) |->
        IF b <= batchSize
        THEN KvAppend(IF b <= Len(slots) THEN slots[b] ELSE <<>>, past, rows[b])
        ELSE slots[b]]

\* KVCacheManager::resize: width slots afterwards, the contents of the slots
\* that remain are kept
KvResize(slots, width) ==
    [b \in 1..width |-> IF b <= Len(slots) THEN slots[b] ELSE <<>>]

\* KVCacheManager::expandPrefixCache: the cached prefix is replicated into the
\* first userSideBS slots
ExpandPrefixCache(slots, prefix, userSideBS, prefixLen) ==
    [b \in 1..(IF Len(slots) > userSideBS THEN Len(slots) ELSE userSideBS) |->
        IF b <= userSideBS
        THEN [t \in 1..prefixLen |-> IF t <= Len(prefix) THEN prefix[t] ELSE NoEntry]
        ELSE slots[b]]

\* KVCacheManager::expandCache: the first seqLen positions of prompt b's slot
\* are replicated into the slots of its beamSize beams
ExpandCache(slots, userSideBS, beamSize, seqLen) ==
    [s \in 1..(IF Len(slots) > userSideBS * beamSize THEN Len(slots)
               ELSE userSideBS * beamSize) |->
        IF s <= userSideBS * beamSize
        THEN LET src == slots[((s - 1) \div beamSize) + 1]
             IN  [t \in 1..seqLen |-> IF t <= Len(src) THEN src[t] ELSE NoEntry]
        ELSE slots[s]]

\* An in-place reordering by sequential overwrite: slot s is overwritten with
\* what slot idx[s] holds by then.
RECURSIVE OverwriteFrom(_, _, _)
OverwriteFrom(slots, idx, s) ==
    IF s > Len(idx) THEN slots
    ELSE OverwriteFrom([slots EXCEPT ![s] = slots[idx[s]]], idx, s + 1)

ReorderSlotsInPlace(slots, idx, size) ==
    OverwriteFrom(slots, idx, 1)

\* KVCacheManager::reorderCache on one layer: slot s gets what slot idx[s]
\* held before the call
ReorderSlots(slots, idx, size) ==
    [s \in 1..Len(slots) |-> IF s <= size THEN slots[idx[s]] ELSE slots[s]]

\* A variant that passes the accumulated length for both lengths.
ReorderCacheArgsAccOnly(idx, init, acc) ==
    [idx |-> idx, size |-> Len(idx), initSeqLen |-> acc, accSeqLen |-> acc]

\* line 774: what reorderCache(idx, size) passes to the cache manager
ReorderCacheArgs(idx, init, acc) ==
    [idx |-> idx, size |-> Len(idx), initSeqLen |-> init, accSeqLen |-> acc]

\* lines 341-351: the ids the layers see: with the prefix split, the tokens
\* after the prefix of every row
NewIds(ids, step, sharing, prefixLen) ==
    IF step = 0 /\ sharing
    THEN [b \in 1..Len(ids) |-> SubSeq(ids[b], prefixLen + 1, Len(ids[b]))]
    ELSE ids

\* What one call of a forward pass does to the caches (main and prefix) of
\* the layers.  c: the rows the layers see, the dims of the call and whether
\* the pass is prefixForward.
ApplyKvOp(o, st, c) ==
    CASE o.op = "prepareBuffers" ->
           \* line 908: kvCacheMgr->resize(..., userSideBS * beamSize, ..., prefix)
           IF c.prefix
           THEN [st EXCEPT !.prefix = [i \in DOMAIN st.prefix |-> <<>>]]
           ELSE [st EXCEPT !.kv = [i \in DOMAIN st.kv |->
                                     KvResize(st.kv[i], c.userSideBS * c.beamSize)]]
      [] o.op = "expandPrefixCache" ->
           [st EXCEPT !.kv[o.layer] =
               ExpandPrefixCache(st.kv[o.layer], st.prefix[o.layer], c.userSideBS, o.n)]
      [] o.op = "forwardAttention" ->
           IF c.prefix
           THEN [st EXCEPT !.prefix[o.layer] = KvAppend(st.prefix[o.layer], 0, c.rows[1])]
           ELSE [st EXCEPT !.kv[o.layer] =
                    AttentionAppend(st.kv[o.layer], c.batchSize, o.n, c.rows)]
      [] o.op = "expandCache" ->
           [st EXCEPT !.kv[o.layer] =
               ExpandCache(st.kv[o.layer], c.userSideBS, c.beamSize, o.n)]
      [] OTHER -> st

\* The caches after the first k calls of the sequence s.
RECURSIVE KvAfter(_, _, _, _)
KvAfter(s, k, st, c) ==
    IF k = 0 THEN st ELSE ApplyKvOp(s[k], KvAfter(s, k - 1, st, c), c)

\* The caches of a decoder of L layers before any call.
EmptyKv(L) == [kv |-> [i \in 0..(L - 1) |-> <<>>], prefix |-> [i \in 0..(L - 1) |-> <<>>]]

InitKV ==
    /\ accSeqLen = 0
    /\ initSeqLen = 0
    /\ prefixSeqLen = 0
    /\ prefixSharing = FALSE
    /\ ctx = [batchSize |-> 0, inputSeqLen |-> 0, pastSeqLen |-> 0]
    /\ workers = 1
    /\ attnMlpParallel = FALSE
    /\ layers = MaxLayers
    /\ ops = <<>>
    /\ ret = NoRet
    /\ tpCalls = [r \in 0..0 |-> <<>>]
    /\ lnIn = <<>>
    /\ finalOut = <<>>
    /\ actCap = 0
    /\ lastCall = NoCall
    /\ genDims = NoDims
    /\ genKv = <<>>
    /\ callLens = <<>>
    /\ genByStep0 = FALSE
    /\ Built(layers, 1)
    /\ PPIdle
    /\ CBIdle
    /\ OptIdle
    /\ P2PIdle
    /\ kvCache = EmptyKv(layers).kv
    /\ prefixKV = EmptyKv(layers).prefix
    /\ kvEvent = NoEvent

\* lines 315-589: forward with the token rows ids ([userSideBS or batchSize]
\* rows of seqLen tokens)
ForwardKV(ids, userSideBS, beamSize, step, logitsAll) ==
    LET seqLen == Len(ids[1])
        after == KvAfter(ops', Len(ops'), [kv |-> kvCache, prefix |-> prefixKV],
                         [rows |-> NewIds(ids, step, prefixSharing, prefixSeqLen),
                          userSideBS |-> userSideBS, beamSize |-> beamSize,
                          batchSize |-> BatchSizeOf(step, userSideBS, beamSize),
                          prefix |-> FALSE])
    IN  /\ userSideBS * beamSize <= KvMaxSlots
        /\ AccAfter(step, accSeqLen, seqLen) <= KvMaxLen
        \* a later step continues a generation whose slots exist
        /\ step > 0 => genDims # NoDims
        /\ ForwardCall(userSideBS, beamSize, seqLen, step, logitsAll)
        /\ \E a \in {after} : kvCache' = a.kv /\ prefixKV' = a.prefix
        /\ kvEvent' = [name |-> "forward", ids |-> ids, idx |-> <<>>, args |-> <<>>]
        /\ UNCHANGED <<ppVars, ctorVars, p2pVars, cbVars, optVars>>

\* lines 695-771: setPrefix(ids, seqLen) and the prefixForward it calls
SetPrefixKV(ids) ==
    LET after == KvAfter(ops', Len(ops'), [kv |-> kvCache, prefix |-> prefixKV],
                         [rows |-> <<ids>>, userSideBS |-> 1, beamSize |-> 1,
                          batchSize |-> 1, prefix |-> TRUE])
    IN  /\ SetPrefixCall(Len(ids))
        /\ \E a \in {after} : kvCache' = a.kv /\ prefixKV' = a.prefix
        /\ kvEvent' = [name |-> "setPrefix", ids |-> <<ids>>, idx |-> <<>>, args |-> <<>>]
        /\ UNCHANGED <<ppVars, ctorVars, p2pVars, cbVars, optVars>>

\* line 701
UnsetPrefixKV ==
    /\ UnsetPrefixCall
    /\ kvEvent' = [name |-> "unsetPrefix", ids |-> <<>>, idx |-> <<>>, args |-> <<>>]
    /\ UNCHANGED <<kvCache, prefixKV>>
    /\ UNCHANGED <<ppVars, ctorVars, p2pVars, cbVars, optVars>>

\* The permutations of 1..n, as sequences.
Perms(n) == {f \in [1..n -> 1..n] : \A i, j \in 1..n : f[i] = f[j] => i = j}

\* lines 773-774: reorderCache(idx, size), size the slots of the generation
ReorderCache(idx) ==
    LET args == ReorderCacheArgs(idx, initSeqLen, accSeqLen)
    IN  /\ genDims # NoDims
        /\ Len(idx) = genDims.userSideBS * genDims.beamSize
        /\ \A i \in DOMAIN kvCache : Len(kvCache[i]) >= Len(idx)
        /\ kvCache' = [i \in DOMAIN kvCache |-> ReorderSlots(kvCache[i], args.idx, args.size)]
        /\ kvEvent' = [name |-> "reorderCache", ids |-> <<>>, idx |-> idx,
                       args |-> <<args.initSeqLen, args.accSeqLen>>]
        /\ UNCHANGED prefixKV
        /\ UNCHANGED <<decVars, ppVars, ctorVars, p2pVars, cbVars, optVars>>

NextKV ==
    \/ \E userSideBS \in 1..MaxBS, beamSize \in 1..MaxBeam, step \in 0..MaxStep,
          logitsAll \in BOOLEAN :
          \E seqLen \in (IF step = 0 THEN 1..MaxSeqLen ELSE {1}) :
              \E ids \in IdRows(BatchSizeOf(step, userSideBS, beamSize), seqLen) :
                  ForwardKV(ids, userSideBS, beamSize, step, logitsAll)
    \/ \E n \in 1..MaxPrefix : \E ids \in [1..n -> Tokens] : SetPrefixKV(ids)
    \/ UnsetPrefixKV
    \/ \E n \in 1..KvMaxSlots : \E idx \in Perms(n) : ReorderCache(idx)

SpecKV == InitKV /\ [][NextKV]_vars

(***************************************************************************)
(* SpecSplit: SpecKV with the step-0 calls whose input is no longer than   *)
(* the prefix (lines 337-353 do not compare the two lengths).             *)
(***************************************************************************)
\* ids as the caller passes it: the rows one after the other
RECURSIVE Flat(_)
Flat(rows) == IF rows = <<>> THEN <<>> ELSE rows[1] \o Flat(Tail(rows))

\* lines 342-346: newIDs, inputSeqLen tokens per row, copied from
\* ids + seqLen * bs + pastSeqLen
SplitNewIDs(flat, userSideBS, seqLen, pastSeqLen, inputSeqLen) ==
    [k \in 1..(userSideBS * inputSeqLen) |->
        flat[seqLen * ((k - 1) \div inputSeqLen) + pastSeqLen
             + ((k - 1) % inputSeqLen) + 1]]

\* lines 341-345: prefixIDs, pastSeqLen tokens per row, copied from
\* ids + seqLen * bs
SplitPrefixIDs(flat, userSideBS, seqLen, pastSeqLen) ==
    [k \in 1..(userSideBS * pastSeqLen) |->
        flat[seqLen * ((k - 1) \div pastSeqLen) + ((k - 1) % pastSeqLen) + 1]]

\* lines 315-589: forward at step 0 with prefix sharing on; the rows the
\* layers see are those of newIDs
ForwardSplit(ids, userSideBS, beamSize, logitsAll) ==
    LET seqLen == Len(ids[1])
        inputSeqLen == InputSeqLenOf(0, seqLen, prefixSharing, prefixSeqLen)
        newIDs == SplitNewIDs(Flat(ids), userSideBS, seqLen, prefixSeqLen, inputSeqLen)
        rows == [b \in 1..userSideBS |->
                    SubSeq(newIDs, (b - 1) * inputSeqLen + 1, b * inputSeqLen)]
        after == KvAfter(ops', Len(ops'), [kv |-> kvCache, prefix |-> prefixKV],
                         [rows |-> rows,
                          userSideBS |-> userSideBS, beamSize |-> beamSize,
                          batchSize |-> userSideBS, prefix |-> FALSE])
    IN  /\ prefixSharing
        \* a negative length is not modelled: malloc and memcpy get a huge size
        /\ inputSeqLen >= 0
        /\ userSideBS * beamSize <= KvMaxSlots
        /\ AccAfter(0, accSeqLen, seqLen) <= KvMaxLen
        /\ ForwardBody(userSideBS, beamSize, seqLen, 0, logitsAll)
        /\ \E a \in {after} : kvCache' = a.kv /\ prefixKV' = a.prefix
        /\ kvEvent' = [name |-> "forward", ids |-> ids, idx |-> <<>>, args |-> <<>>]
        /\ UNCHANGED <<ppVars, ctorVars, p2pVars, cbVars, optVars>>

\* lines 315-589: the other forward calls
ForwardUnsplit(ids, userSideBS, beamSize, step, logitsAll) ==
    /\ step > 0 \/ ~prefixSharing
    /\ ForwardKV(ids, userSideBS, beamSize, step, logitsAll)

NextSplit ==
    \/ \E userSideBS \in 1..MaxBS, beamSize \in 1..MaxBeam, logitsAll \in BOOLEAN :
          \E seqLen \in 1..MaxSeqLen : \E ids \in IdRows(userSideBS, seqLen) :
              ForwardSplit(ids, userSideBS, beamSize, logitsAll)
    \/ \E userSideBS \in 1..MaxBS, beamSize \in 1..MaxBeam, step \in 0..MaxStep,
          logitsAll \in BOOLEAN :
          \E seqLen \in (IF step = 0 THEN 1..MaxSeqLen ELSE {1}) :
              \E ids \in IdRows(BatchSizeOf(step, userSideBS, beamSize), seqLen) :
                  ForwardUnsplit(ids, userSideBS, beamSize, step, logitsAll)
    \/ \E n \in 1..MaxPrefix : \E ids \in [1..n -> Tokens] : SetPrefixKV(ids)
    \/ UnsetPrefixKV

SpecSplit == InitKV /\ [][NextSplit]_vars

(***************************************************************************)
(* SpecCB: forward(seqs, logitsAll), lines 591-693.  A sequence is given   *)
(* by its input length, its past length and its step; the batches are all  *)
(* prompts or all decodes (line 592).  The rows of embBuf are named by the *)
(* token row whose hidden state they hold.  DecoderContext::resize with    *)
(* two lengths is not among the sources: the model keeps its arguments     *)
(* (ctxSeqs) and leaves the fields of the single-request path alone.       *)
(***************************************************************************)
SeqMeta(inputSeqLen, pastSeqLen, step) ==
    [inputSeqLen |-> inputSeqLen, pastSeqLen |-> pastSeqLen, step |-> step]

\* Batches of n prompts, and of n sequences that decode one token.
PromptBatches(n) == [1..n -> {SeqMeta(l, 0, 0) : l \in 1..MaxSeqLen}]
DecodeBatches(n) == [1..n -> {SeqMeta(1, q, 1) : q \in 1..MaxSeqLen}]

SeqBatches == UNION {PromptBatches(n) \cup DecodeBatches(n) : n \in 0..MaxBatch}

\* lines 606-613: the sums over the sequences
RECURSIVE TotInputSeqLen(_)
TotInputSeqLen(list) ==
    IF list = <<>> THEN 0 ELSE list[1].inputSeqLen + TotInputSeqLen(Tail(list))

RECURSIVE TotPastSeqLen(_)
TotPastSeqLen(list) ==
    IF list = <<>> THEN 0 ELSE list[1].pastSeqLen + TotPastSeqLen(Tail(list))

\* line 618
LogitRowsSeqs(list, logitsAll) ==
    IF ~logitsAll /\ list[1].step = 0 THEN Len(list) ELSE TotInputSeqLen(list)

\* lines 912-920: prepareBuffer
PrepareBuffer(cap, totInputSeqLen, logitRows) ==
    LET outRows == (logitRows * VocabSize + HiddenSize - 1) \div HiddenSize
    IN  MatrixResize(cap, totInputSeqLen + outRows, HiddenSize)

\* embBuf after the decoder block: row k holds the hidden state of token row k
HiddenRows(tot) == [k \in 1..tot |-> k - 1]

\* A variant that gathers from the last sequence to the first.
RECURSIVE GatherDown(_, _, _)
GatherDown(buf, list, b) ==
    IF b < 0 THEN buf
    ELSE GatherDown([buf EXCEPT ![b + 1] = buf[TotInputSeqLen(SubSeq(list, 1, b + 1))]],
                    list, b - 1)

GatherLastRowsDescending(buf, list, b, offset) ==
    GatherDown(buf, list, Len(list) - 1)

\* lines 646-653: for b = 0 .. batchSize - 1: offset += inputSeqLen of b; row b
\* of lnIn (= embBuf) is overwritten with row offset of embBuf
RECURSIVE GatherLastRows(_, _, _, _)
GatherLastRows(buf, list, b, offset) ==
    IF b >= Len(list) THEN buf
    ELSE GatherLastRows([buf EXCEPT ![b + 1] = buf[offset + list[b + 1].inputSeqLen + 1]],
                        list, b + 1, offset + list[b + 1].inputSeqLen)

\* lines 645-666: the rows the final normalization reads
LnInSeqs(list, logitsAll) ==
    LET tot == TotInputSeqLen(list)
        logitRows == LogitRowsSeqs(list, logitsAll)
    IN  SubSeq(IF logitRows # tot
               THEN GatherLastRows(HiddenRows(tot), list, 0, -1)
               ELSE HiddenRows(tot),
               1, logitRows)

\* A variant that resizes the context before it looks at the list.
SeqsOpsResizeFirst(list, logitsAll) ==
    <<Op("resize", -1, NoBuf, NoBuf, TotInputSeqLen(list))>>

\* lines 597-689: the calls of forward(seqs, logitsAll), in order
SeqsOps(list, logitsAll) ==
    IF list = <<>> THEN <<>>
    ELSE LET tot == TotInputSeqLen(list)
             logitRows == LogitRowsSeqs(list, logitsAll)
         IN  <<Op("resize", -1, NoBuf, NoBuf, tot),
               Op("prepareBuffer", -1, NoBuf, NoBuf, logitRows),
               Op("embeddingForward", -1, NoBuf, "embBuf", tot),
               Op("decoderBlock", -1, "embBuf", "embBuf", tot)>>
             \o (IF logitRows # tot
                 THEN <<Op("copyLastRows", -1, "embBuf", "embBuf", Len(list))>>
                 ELSE <<>>)
             \o <<Op("lastLayerNormForward", -1, "embBuf", "embBuf", logitRows),
                  Op("predictorForward", -1, "embBuf", "outBuf", logitRows)>>

\* lines 591-693
ForwardSeqs(list, logitsAll) ==
    /\ seqs' = [list |-> list, logitsAll |-> logitsAll, called |-> TRUE]
    /\ ops' = SeqsOps(list, logitsAll)
    /\ IF list = <<>>
       THEN /\ retSeqs' = [ptr |-> "nullptr", splitOffset |-> 0, splitSize |-> 0]
            /\ UNCHANGED <<ctxSeqs, actCap, lnIn, finalOut>>
       ELSE /\ ctxSeqs' = [totInputSeqLen |-> TotInputSeqLen(list),
                            totAccSeqLen |-> TotInputSeqLen(list) + TotPastSeqLen(list)]
            /\ actCap' = PrepareBuffer(actCap, TotInputSeqLen(list),
                                       LogitRowsSeqs(list, logitsAll))
            /\ lnIn' = LnInSeqs(list, logitsAll)
            \* the predictor writes one logits row per normalized row
            /\ finalOut' = LnInSeqs(list, logitsAll)
            \* DistLinear (not among the sources): the shard of this rank
            /\ retSeqs' = [ptr |-> "finalOut", splitOffset |-> 0,
                            splitSize |-> SplitSize(workers)]
    /\ UNCHANGED <<accSeqLen, initSeqLen, prefixSeqLen, prefixSharing, ctx, workers,
                   attnMlpParallel, layers, ret, tpCalls, lastCall, genDims, genKv,
                   callLens, genByStep0>>
    /\ UNCHANGED <<ppVars, ctorVars, kvVars, p2pVars, optVars>>

NextCB == \E list \in SeqBatches, logitsAll \in BOOLEAN : ForwardSeqs(list, logitsAll)

SpecCB == Init /\ [][NextCB]_vars

(***************************************************************************)
(* SpecOpt: an OptDecoder (opt_decoder.cpp).  Its embeddingForward takes   *)
(* the batch size and the sequence length of the call; forward is taken    *)
(* to pass batchSize and inputSeqLen.  A float of the mask is 0, Lowest    *)
(* (std::numeric_limits<float>::lowest()) or Unset (allocated and never    *)
(* written).                                                               *)
(***************************************************************************)
Lowest == -1
Unset == 2

\* A variant that allocates the size required by every call.
GetAttnMaskExact(mask, size, sizeRequired) ==
    [mask |-> [k \in 1..sizeRequired |-> Unset], size |-> sizeRequired]

\* common_decoder.h lines 922-929: getAttnMask
GetAttnMask(mask, size, sizeRequired) ==
    IF size < sizeRequired
    THEN [mask |-> [k \in 1..sizeRequired |-> Unset], size |-> sizeRequired]
    ELSE [mask |-> mask, size |-> size]

\* opt_decoder.cpp lines 72-92: prepareAttnMask(ids, step) with the context's
\* batchSize and inputSeqLen (seqLen) and this->accSeqLen (acc)
PrepareAttnMask(mask, size, batchSize, seqLen, acc, step) ==
    LET sizeRequired == IF step = 0 THEN batchSize * seqLen * seqLen ELSE batchSize * acc
        got == GetAttnMask(mask, size, sizeRequired)
        written == [k \in 1..Len(got.mask) |->
                       IF k > sizeRequired THEN got.mask[k]
                       ELSE IF step # 0 THEN 0
                       ELSE LET r == (k - 1) % (seqLen * seqLen)
                            IN  IF r % seqLen <= r \div seqLen THEN 0 ELSE Lowest]
    IN  [mask |-> written, size |-> got.size]

\* opt_decoder.cpp lines 94-106: positions[b * seqLen + i] = i + accSeqLen
EmbeddingPositions(batchSize, seqLen, acc) ==
    [k \in 1..(batchSize * seqLen) |-> ((k - 1) % seqLen) + acc]

\* the calls of embeddingForward and prepareAttnMask of a forward or
\* prefixForward call: accEmb is accSeqLen at the embedding, accMask at the mask
OptCalls(batchSize, seqLen, accEmb, accMask, stepArg) ==
    /\ positions' = EmbeddingPositions(batchSize, seqLen, accEmb)
    /\ \E m \in {PrepareAttnMask(attnMask, maskSize, batchSize, seqLen, accMask, stepArg)} :
           attnMask' = m.mask /\ maskSize' = m.size
    /\ optCall' = [called |-> TRUE, step |-> stepArg, batchSize |-> batchSize,
                   seqLen |-> seqLen, accSeqLen |-> accMask]

\* common_decoder.h lines 315-589 on an OptDecoder: embeddingForward runs
\* after the reset of line 336 and before line 364, prepareAttnMask after it
\* with step + prefixSharing
ForwardOpt(userSideBS, beamSize, seqLen, step, logitsAll) ==
    /\ ForwardCall(userSideBS, beamSize, seqLen, step, logitsAll)
    /\ OptCalls(BatchSizeOf(step, userSideBS, beamSize),
                InputSeqLenOf(step, seqLen, prefixSharing, prefixSeqLen),
                IF step = 0 THEN 0 ELSE accSeqLen,
                AccAfter(step, accSeqLen, seqLen),
                step + (IF prefixSharing THEN 1 ELSE 0))
    /\ UNCHANGED <<ppVars, ctorVars, kvVars, p2pVars, cbVars>>

\* common_decoder.h lines 695-771 on an OptDecoder: prefixForward embeds and
\* calls prepareAttnMask(ids, 0); accSeqLen is not touched
SetPrefixOpt(seqLen) ==
    /\ SetPrefixCall(seqLen)
    /\ OptCalls(1, seqLen, accSeqLen, accSeqLen, 0)
    /\ UNCHANGED <<ppVars, ctorVars, kvVars, p2pVars, cbVars>>

NextOpt ==
    \/ \E userSideBS \in 1..MaxBS, beamSize \in 1..MaxBeam, seqLen \in 1..MaxSeqLen,
          step \in 0..MaxStep :
          ForwardOpt(userSideBS, beamSize, seqLen, step, FALSE)
    \/ \E seqLen \in 1..MaxPrefix : SetPrefixOpt(seqLen)
    \/ UnsetPrefix
    \/ \E n \in 1..MaxSeqLen : SkipFirstStep(n)

SpecOpt == InitKV /\ [][NextOpt]_vars

(***************************************************************************)
(* SpecP2P: the point-to-point messages of a PIPELINE_PARALLEL job of      *)
(* ppSize stages of tpSize ranks.  Every rank makes the same forward calls *)
(* (line 316: the input has been synced with the master).  MPI is not      *)
(* among the sources: a receive (source, tag) completes with the oldest    *)
(* send addressed to the receiving rank with that source and that tag.     *)
(* The calls are prompts of MaxSeqLen tokens or single tokens, for batches *)
(* of 1..MaxBS sequences.                                                  *)
(***************************************************************************)
\* line 385
CurrWorldRank(ppRank, tpRank, tpSize) == ppRank * tpSize + tpRank

\* line 386
PrevWorldRank(ppRank, tpRank, tpSize) == (ppRank - 1) * tpSize + tpRank

\* A variant that addresses the first rank of the next stage.
NextWorldRankOfStage(ppRank, tpRank, tpSize) == (ppRank + 1) * tpSize

\* line 495
NextWorldRank(ppRank, tpRank, tpSize) == (ppRank + 1) * tpSize + tpRank

\* lines 387 and 496: int count = batchSize * inputSeqLen * hiddenSize
ElemCount(batchSize, inputSeqLen, hiddenSize) == batchSize * inputSeqLen * hiddenSize

\* lines 389 and 391: the two receives of a call, in order
RecvEnvelopes(ppRank, tpRank, tpSize, count) ==
    <<[kind |-> "id", source |-> PrevWorldRank(ppRank, tpRank, tpSize),
       tag |-> CurrWorldRank(ppRank, tpRank, tpSize), count |-> 1],
      [kind |-> "data", source |-> PrevWorldRank(ppRank, tpRank, tpSize),
       tag |-> CurrWorldRank(ppRank, tpRank, tpSize), count |-> count]>>

\* lines 497-498: the two sends of a call, in order
SendEnvelopes(ppRank, tpRank, tpSize, count) ==
    <<[kind |-> "id", src |-> CurrWorldRank(ppRank, tpRank, tpSize),
       dst |-> NextWorldRank(ppRank, tpRank, tpSize),
       tag |-> NextWorldRank(ppRank, tpRank, tpSize), count |-> 1],
      [kind |-> "data", src |-> CurrWorldRank(ppRank, tpRank, tpSize),
       dst |-> NextWorldRank(ppRank, tpRank, tpSize),
       tag |-> NextWorldRank(ppRank, tpRank, tpSize), count |-> count]>>

\* The world ranks of the job, the stage and the TP rank of a world rank.
Ranks == 0..(world.ppSize * world.tpSize - 1)
PpRankOf(r) == r \div world.tpSize
TpRankOf(r) == r % world.tpSize

\* MPI matching: the send e, addressed to the rank that posted the receive
\* rcv, can complete it.
Matches(e, rcv) == e.src = rcv.source /\ e.tag = rcv.tag

\* The oldest send on the wire that matches (0: none).
FirstMatch(w, rcv) ==
    IF \E k \in 1..Len(w) : Matches(w[k], rcv)
    THEN CHOOSE k \in 1..Len(w) :
             /\ Matches(w[k], rcv)
             /\ \A j \in 1..(k - 1) : ~Matches(w[j], rcv)
    ELSE 0

RemoveAt(w, k) == SubSeq(w, 1, k - 1) \o SubSeq(w, k + 1, Len(w))

NoRecv == [kind |-> "none", source |-> -1, tag |-> -1, count |-> 0]

\* The count of the call the rank is in.
CallCount(r) ==
    LET c == world.calls[posted[r].n]
    IN  ElemCount(c.batchSize, c.inputSeqLen, HiddenSize)

InitP2P ==
    /\ accSeqLen = 0
    /\ initSeqLen = 0
    /\ prefixSeqLen = 0
    /\ prefixSharing = FALSE
    /\ ctx = [batchSize |-> 0, inputSeqLen |-> 0, pastSeqLen |-> 0]
    /\ workers = 1
    /\ attnMlpParallel = FALSE
    /\ layers = 1
    /\ ops = <<>>
    /\ ret = NoRet
    /\ tpCalls = [r \in 0..0 |-> <<>>]
    /\ lnIn = <<>>
    /\ finalOut = <<>>
    /\ actCap = 0
    /\ lastCall = NoCall
    /\ genDims = NoDims
    /\ genKv = <<>>
    /\ callLens = <<>>
    /\ genByStep0 = FALSE
    /\ \E pp \in 1..MaxPP, tp \in 1..MaxTP :
          /\ world = [ppSize |-> pp, tpSize |-> tp, calls |-> <<>>]
          /\ Built(pp, pp)
    /\ PPIdle
    /\ CBIdle
    /\ OptIdle
    /\ KvIdle
    /\ wire = [r \in Ranks |-> <<>>]
    /\ posted = [r \in Ranks |-> [pc |-> "idle", n |-> 0, recv |-> NoRecv]]
    /\ delivered = {}

\* lines 315-384 and 493: rank r begins its next forward call, with the shapes
\* every rank is given for that call; it blocks in the first receive, or goes
\* on to the sends, or (a job of one stage) returns
P2PBegin(r, batchSize, inputSeqLen) ==
    LET k == posted[r].n + 1
        p == PpRankOf(r)
        count == ElemCount(batchSize, inputSeqLen, HiddenSize)
        rcv == RecvEnvelopes(p, TpRankOf(r), world.tpSize, count)
    IN  /\ posted[r].pc = "idle"
        /\ k <= MaxP2PCalls
        /\ IF k <= Len(world.calls)
           THEN /\ world.calls[k] = [batchSize |-> batchSize, inputSeqLen |-> inputSeqLen]
                /\ UNCHANGED world
           ELSE world' = [world EXCEPT !.calls =
                            Append(@, [batchSize |-> batchSize, inputSeqLen |-> inputSeqLen])]
        /\ posted' = [posted EXCEPT ![r] =
                        IF world.ppSize > 1 /\ p > 0
                        THEN [pc |-> "recvId", n |-> k, recv |-> rcv[1]]
                        ELSE IF world.ppSize > 1 /\ p < world.ppSize - 1
                        THEN [pc |-> "sendId", n |-> k, recv |-> NoRecv]
                        ELSE [pc |-> "idle", n |-> k, recv |-> NoRecv]]
        /\ UNCHANGED <<wire, delivered>>
        /\ UNCHANGED <<decVars, ppVars, ctorVars, kvVars, cbVars, optVars>>

\* lines 389 and 391: the receive rank r is blocked in completes; after the
\* payload the layers run and the rank goes on to the sends or (last stage)
\* returns
P2PRecv(r) ==
    LET rcv == posted[r].recv
        k == FirstMatch(wire[r], rcv)
        p == PpRankOf(r)
    IN  /\ posted[r].pc \in {"recvId", "recvData"}
        /\ k # 0
        /\ wire' = [wire EXCEPT ![r] = RemoveAt(@, k)]
        /\ delivered' = delivered \cup {[by |-> r, recv |-> rcv, send |-> wire[r][k]]}
        /\ posted' = [posted EXCEPT ![r] =
                        IF posted[r].pc = "recvId"
                        THEN [@ EXCEPT !.pc = "recvData",
                                       !.recv = RecvEnvelopes(p, TpRankOf(r), world.tpSize,
                                                              CallCount(r))[2]]
                        ELSE [@ EXCEPT !.pc = IF p < world.ppSize - 1 THEN "sendId" ELSE "idle",
                                       !.recv = NoRecv]]
        /\ UNCHANGED world
        /\ UNCHANGED <<decVars, ppVars, ctorVars, kvVars, cbVars, optVars>>

\* lines 497-501: the next send of rank r; after the payload the call returns
P2PSend(r) ==
    LET env == SendEnvelopes(PpRankOf(r), TpRankOf(r), world.tpSize, CallCount(r))
        e == IF posted[r].pc = "sendId" THEN env[1] ELSE env[2]
    IN  /\ posted[r].pc \in {"sendId", "sendData"}
        \* a send to a rank the job does not have is an MPI error
        /\ e.dst \in Ranks
        /\ wire' = [wire EXCEPT ![e.dst] = Append(@, e)]
        /\ posted' = [posted EXCEPT ![r].pc = IF @ = "sendId" THEN "sendData" ELSE "idle"]
        /\ UNCHANGED <<world, delivered>>
        /\ UNCHANGED <<decVars, ppVars, ctorVars, kvVars, cbVars, optVars>>

NextP2P ==
    \/ \E r \in Ranks, batchSize \in 1..MaxBS, inputSeqLen \in {1, MaxSeqLen} :
          P2PBegin(r, batchSize, inputSeqLen)
    \/ \E r \in Ranks : P2PRecv(r)
    \/ \E r \in Ranks : P2PSend(r)

SpecP2P == InitP2P /\ [][NextP2P]_vars

(***************************************************************************)
(* SpecCtor: the construction of a decoder and the re-derivations of its   *)
(* context.  std::exit and a failed REQUIRES end the process: no action is *)
(* enabled afterwards.                                                     *)
(***************************************************************************)
QuantNames == {"", "int8", "uint4", "int4"}
ElemNames == {"fp32", "fp16"}
GroupSizes == {-1, 128}
WeightTypes == {"fp32", "bf16"}
HiddenSizes == {HiddenSize, HiddenSize + 1}

InitCtor ==
    /\ accSeqLen = 0
    /\ initSeqLen = 0
    /\ prefixSeqLen = 0
    /\ prefixSharing = FALSE
    /\ ctx = [batchSize |-> 0, inputSeqLen |-> 0, pastSeqLen |-> 0]
    /\ workers = 1
    /\ attnMlpParallel = FALSE
    /\ layers = 1
    /\ ops = <<>>
    /\ ret = NoRet
    /\ tpCalls = [r \in 0..0 |-> <<>>]
    /\ lnIn = <<>>
    /\ finalOut = <<>>
    /\ actCap = 0
    /\ lastCall = NoCall
    /\ genDims = NoDims
    /\ genKv = <<>>
    /\ callLens = <<>>
    /\ genByStep0 = FALSE
    /\ phase = "new"
    /\ cfg = NoCfg
    /\ dt = "unset"
    /\ context = NoContext
    /\ PPIdle
    /\ CBIdle
    /\ OptIdle
    /\ KvIdle
    /\ P2PIdle
    /\ ctxCreated = 0
    /\ steps = <<>>
    /\ req = NoReq
    /\ ctxGot = "none"
    /\ decoders = 0
    /\ kvConfigures = 0

\* lines 155-305: the constructor, from the values of config.ini.  The process
\* may construct a further decoder of the same model: the new object's context
\* member is null (line 969), its other members are its own, and
\* KVCacheMgr::instance() is the one of the process.
Construct(c) ==
    LET base == BaseWeightType(c.srcWeightType, c.attnWeightType)
        quantOk == QuantTripleOk(c.quantQweight, c.quantScales, c.quantZeros,
                                 c.quantGroupsize)
        derived == DeriveContext(NoContext, 0, c.layers, c.hiddenSize, c.attHeadNum,
                                 c.kvHeadNum, c.imSize, MyRank, c.ppSize)
        divides == LayersDivide(c.layers, derived.context.ppSize)
        completes == quantOk /\ derived.got # "exit" /\ divides
    IN  /\ \/ phase = "new"
           \/ phase = "constructed" /\ decoders < MaxDecoders /\ c = cfg
        /\ cfg' = c
        /\ decoders' = decoders + 1
        \* lines 290-294: reached by a constructor that passes line 284
        /\ kvConfigures' = IF completes THEN kvConfigures + 1 ELSE kvConfigures
        /\ req' = NoReq
        \* lines 208-212
        /\ initSeqLen' = 0
        /\ accSeqLen' = 0
        /\ prefixSeqLen' = 0
        /\ prefixSharing' = FALSE
        \* lines 223-230
        /\ dt' = QuantWeightType(c.quantQweight, base)
        /\ IF ~quantOk
           THEN \* lines 231-233: a REQUIRES fails
                /\ phase' = "exit"
                /\ steps' = <<"quant">>
                /\ context' = NoContext
                /\ ctxCreated' = 0
                /\ ctxGot' = "none"
                /\ UNCHANGED actCap
           ELSE /\ actCap' = 0
                /\ context' = derived.context
                /\ ctxCreated' = derived.created
                /\ ctxGot' = derived.got
                /\ IF derived.got = "exit"
                   THEN /\ phase' = "exit"
                        /\ steps' = <<"quant", "context">>
                   ELSE IF ~divides
                   THEN \* lines 280-284
                        /\ phase' = "exit"
                        /\ steps' = <<"quant", "context", "layers">>
                   ELSE /\ phase' = "constructed"
                        /\ steps' = AllSteps
        /\ UNCHANGED <<ctx, workers, attnMlpParallel, layers, ops, ret, tpCalls, lnIn, finalOut,
                       lastCall, genDims, genKv, callLens, genByStep0>>
        /\ UNCHANGED <<ppVars, kvVars, p2pVars, cbVars, optVars>>

\* lines 815-855: getDecoderContext called again on the constructed decoder
GetDecoderContext(nLayers, hiddenSize, attHeadNum, kvHeadNum, imSize) ==
    LET derived == DeriveContext(context, ctxCreated, nLayers, hiddenSize, attHeadNum,
                                 kvHeadNum, imSize, MyRank, cfg.ppSize)
    IN  /\ phase = "constructed"
        /\ req' = [hiddenSize |-> hiddenSize, attHeadNum |-> attHeadNum,
                   kvHeadNum |-> kvHeadNum, imSize |-> imSize, layers |-> nLayers]
        /\ ctxGot' = derived.got
        /\ context' = derived.context
        /\ ctxCreated' = derived.created
        /\ phase' = IF derived.got = "exit" THEN "exit" ELSE phase
        /\ UNCHANGED <<cfg, dt, steps, decoders, kvConfigures>>
        /\ UNCHANGED <<decVars, ppVars, kvVars, p2pVars, cbVars, optVars>>

NextCtor ==
    \* the first decoder of the process, from any configuration
    \/ /\ phase = "new"
       /\ \E q \in QuantNames, sc \in ElemNames, z \in ElemNames, g \in GroupSizes,
             sw \in WeightTypes, aw \in WeightTypes, n \in 1..MaxCfgLayers,
             pp \in 1..NumStages, h \in HiddenSizes, heads \in 1..MaxHeads :
             Construct([quantQweight |-> q, quantScales |-> sc, quantZeros |-> z,
                        quantGroupsize |-> g, srcWeightType |-> sw, attnWeightType |-> aw,
                        layers |-> n, ppSize |-> pp, hiddenSize |-> h, attHeadNum |-> heads,
                        kvHeadNum |-> heads, imSize |-> 1])
    \* a further decoder of the same model
    \/ /\ phase = "constructed"
       /\ Construct(cfg)
    \/ \E n \in 1..MaxCfgLayers, h \in HiddenSizes, heads \in 1..MaxHeads,
          kv \in 1..MaxHeads, im \in 1..MaxInter :
          GetDecoderContext(n, h, heads, kv, im)

SpecCtor == InitCtor /\ [][NextCtor]_vars

(***************************************************************************)
(* Properties of SpecPP.                                                   *)
(***************************************************************************)
InTrace(p, name) == \E k \in 1..Len(trace[p]) : trace[p][k] = name
IsPop(x) == x = "pop"
IsLayers(x) == x = "layers"

\* C2: with more than one stage, a forward call of a stage that is not the
\* last sends the identifier and then the payload and returns (nullptr, 0, 0)
\* without final normalization or projection; only the last stage returns a
\* logits pointer.
C2_OnlyLastStageReturnsLogits ==
    \A p \in Stages :
        /\ ppRet[p] = "finalOut" => p = NumStages - 1
        /\ (NumStages > 1 /\ p < NumStages - 1) =>
             /\ ~InTrace(p, "lastLayerNormForward")
             /\ ~InTrace(p, "predictorForward")
             /\ ppRet[p] # "none" =>
                  /\ ppRet[p] = "nullptr"
                  /\ Len(trace[p]) >= 2
                  /\ trace[p][Len(trace[p]) - 1] = "sendId"
                  /\ trace[p][Len(trace[p])] = "sendData"
        /\ (p = NumStages - 1 /\ ppRet[p] # "none") =>
             /\ ppRet[p] = "finalOut"
             /\ ~InTrace(p, "sendId")
             /\ ~InTrace(p, "sendData")

C2_Witness ==
    /\ ppRet[0] = "nullptr"
    /\ ppRet[NumStages - 1] = "finalOut"
    /\ callNo[NumStages - 1] >= 2

\* C3: the sender issues the identifier send before the payload send, the
\* receiver receives the identifier before the payload, and the payload a
\* call receives comes from the same call of the sender as the identifier it
\* received: no payload is paired with another group's identifier.
C3_IdentifierBeforePayload ==
    \A p \in Stages :
        /\ pc[p] = "recvData" =>
             /\ rcvd[p][1].kind = "id"
             /\ recvSeqID[p] = rcvd[p][1].val
        /\ rcvd[p][2] # NoMsg =>
             /\ rcvd[p][1].kind = "id"
             /\ rcvd[p][2].kind = "data"
             /\ rcvd[p][2].serial = rcvd[p][1].serial
             /\ recvSeqID[p] = rcvd[p][1].val
             /\ \E i, j \in 1..Len(trace[p]) :
                  i < j /\ trace[p][i] = "recvId" /\ trace[p][j] = "recvData"
        /\ pc[p] = "sendData" => trace[p][Len(trace[p])] = "sendId"
        /\ ppRet[p] = "nullptr" =>
             /\ trace[p][Len(trace[p]) - 1] = "sendId"
             /\ trace[p][Len(trace[p])] = "sendData"
        /\ \A k \in 1..Len(chan[p]) :
             (chan[p][k].kind = "data" /\ k > 1) =>
                 /\ chan[p][k - 1].kind = "id"
                 /\ chan[p][k - 1].serial = chan[p][k].serial

C3_Witness ==
    \E p \in Stages :
        /\ p > 0
        /\ rcvd[p][2].kind = "data"
        /\ rcvd[p][2].serial >= 2
        /\ rcvd[p][1].val # sequenceID[p - 1]
        /\ Len(chan[p]) >= 1

\* C4: the ready queue never holds more than its capacity; the push of a
\* received group always finds room, and an inbound request that finds the
\* queue full is not lost: every submitted request is still inbound or is
\* registered.
C4_ReadyQueueWithinCapacity ==
    \A p \in Stages :
        /\ Len(taskQ[p]) <= QueueCap
        /\ pc[p] \in {"recvId", "recvData"} => Len(taskQ[p]) < QueueCap
        /\ \A id \in SeqIds :
             origin[id] = p => (id \in QueueIds(inputQ[p]) \/ pool[p][id] # NoMeta)

C4_Witness ==
    \E p \in Stages :
        /\ p > 0
        /\ pc[p] = "wait"
        /\ Len(taskQ[p]) = QueueCap
        /\ taskQ[p][QueueCap] = recvSeqID[p]

\* C5: the step that ends the wait pops exactly the front group of the ready
\* queue, which becomes the running group; nothing else ever removes a group
\* from the ready queue, and a call that has returned has popped once and run
\* the layers once.
C5_PopStep ==
    \A p \in Stages :
        /\ (pc[p] = "wait" /\ pc'[p] # "wait") =>
             /\ taskQ[p] # <<>>
             /\ taskQ'[p] = Tail(taskQ[p])
             /\ sequenceID'[p] = Head(taskQ[p])
        /\ Len(taskQ'[p]) < Len(taskQ[p]) => (pc[p] = "wait" /\ pc'[p] # "wait")
        /\ ppRet'[p] # "none" =>
             /\ Len(SelectSeq(trace'[p], IsPop)) = 1
             /\ Len(SelectSeq(trace'[p], IsLayers)) = 1
        /\ Len(SelectSeq(trace'[p], IsPop)) <= 1
        /\ Len(SelectSeq(trace'[p], IsLayers)) = Len(SelectSeq(trace'[p], IsPop))

\* C5: every step of every behaviour pops at most one group, and the layer
\* loop runs exactly once for the group that was popped.
C5_ExactlyOnePopPerTick == [][C5_PopStep]_vars

C5_Witness ==
    \E p \in Stages :
        /\ ppRet[p] # "none"
        /\ sequenceID[p] \in SeqIds
        /\ Len(taskQ[p]) = 1
        /\ Len(SelectSeq(trace[p], IsPop)) = 1

\* C6: when the payload of identifier S has been received on a non-first
\* stage: if S was not registered, one record is created, with the call's
\* seqLen and pastSeqLen and the received activations, and registered; if S
\* was registered, no record is created and the registered one is kept.  In
\* both cases S is registered afterwards, at most one record was ever created
\* for S, and S is pushed to the back of the ready queue.
C6_RecvStep ==
    \A p \in Stages :
        (pc[p] = "recvData" /\ pc'[p] = "wait") =>
            LET S == recvSeqID[p]
                n == Len(taskQ[p])
            IN  /\ p > 0
                /\ IF pool[p][S] = NoMeta
                   THEN /\ metaCreated'[p][S] = metaCreated[p][S] + 1
                        /\ pool'[p][S] = [seqLen |-> call[p].seqLen,
                                          pastSeqLen |-> call[p].pastSeqLen,
                                          buf |-> Head(chan[p]).val]
                   ELSE /\ metaCreated'[p][S] = metaCreated[p][S]
                        /\ pool'[p][S] = pool[p][S]
                /\ \A id \in SeqIds \ {S} : metaCreated'[p][id] = metaCreated[p][id]
                /\ pool'[p][S] # NoMeta
                /\ metaCreated'[p][S] <= 1
                /\ Len(taskQ'[p]) >= n + 1
                /\ SubSeq(taskQ'[p], 1, n) = taskQ[p]
                /\ taskQ'[p][n + 1] = S

\* C6: every step that takes in a received identifier S registers S exactly
\* when it was unregistered, never twice, and appends S to the ready queue.
C6_RegisterReceivedOnce == [][C6_RecvStep]_vars

C6_Witness ==
    \E p \in Stages :
        /\ p > 0
        /\ pc[p] = "wait"
        /\ recvSeqID[p] \in SeqIds
        /\ metaCreated[p][recvSeqID[p]] = 1
        /\ pool[p][recvSeqID[p]].buf # embBuf[p]
        /\ taskQ[p] # <<>>
        /\ taskQ[p][Len(taskQ[p])] = recvSeqID[p]

\* C7: the admission step of a call pops the front inbound request exactly
\* when the inbound queue is non-empty and the ready queue (after the push of
\* a received group) is not full, registers it with the call's pastSeqLen and
\* activations and pushes it; otherwise, in particular when the ready queue
\* is full, the inbound queue and the registry (but for the received group)
\* are unchanged.  No other step removes an inbound request.
C7_AdmissionStep ==
    \A p \in Stages :
        /\ (pc[p] \in {"idle", "recvData"} /\ pc'[p] = "wait") =>
             LET q1 == IF pc[p] = "recvData" THEN Append(taskQ[p], recvSeqID[p])
                       ELSE taskQ[p]
             IN  IF inputQ[p] # <<>> /\ Len(q1) < QueueCap
                 THEN /\ inputQ'[p] = Tail(inputQ[p])
                      /\ taskQ'[p] = Append(q1, Head(inputQ[p]))
                      /\ pool'[p][Head(inputQ[p])] # NoMeta
                      /\ pool'[p][Head(inputQ[p])].pastSeqLen = call'[p].pastSeqLen
                      /\ pool'[p][Head(inputQ[p])].buf = embBuf'[p]
                 ELSE /\ inputQ'[p] = inputQ[p]
                      /\ taskQ'[p] = q1
                      /\ \A id \in SeqIds \ {recvSeqID[p]} : pool'[p][id] = pool[p][id]
        /\ Len(inputQ'[p]) < Len(inputQ[p]) =>
             /\ pc[p] \in {"idle", "recvData"} /\ pc'[p] = "wait"
             /\ Len(inputQ'[p]) = Len(inputQ[p]) - 1

\* C7: every step removes at most one inbound request, only in the admission
\* phase with room in the ready queue; otherwise inbound queue and registry
\* are left as they were.
C7_AdmitAtMostOneInbound == [][C7_AdmissionStep]_vars

C7_Witness ==
    \E p \in Stages :
        /\ pc[p] = "wait"
        /\ trace[p][Len(trace[p])] = "admission"
        /\ Len(taskQ[p]) = QueueCap
        /\ inputQ[p] # <<>>
        /\ pool[p][Head(inputQ[p])] = NoMeta

\* C8: once shutdown has been requested, a rank waiting for the ready queue
\* can leave the wait, whether or not the ready queue is empty.
C8_ShutdownEndsWait ==
    \A p \in Stages :
        (shutdownRequested /\ pc[p] = "wait") => ENABLED RunTick(p)

\* Every stage is between two forward calls with nothing queued and nothing
\* on its way to it.
Drained ==
    \A p \in Stages :
        pc[p] = "idle" /\ inputQ[p] = <<>> /\ taskQ[p] = <<>> /\ chan[p] = <<>>

\* C26: once every request has run on every stage and no further one comes
\* (the callers have submitted their last request, or the serving loop has
\* asked the ranks to stop), no stage's registry holds a record any more: the
\* records of the completed requests have been removed.
C26_CompletedGroupsLeaveRegistry ==
    (Drained /\ (shutdownRequested \/ nSubmits = MaxSubmits)) =>
        \A p \in Stages, id \in SeqIds : ~PoolHas(pool[p], id)

\* C29 (SpecPPMid): the identifier a stage sends onward ahead of its payload
\* names the group whose activations the payload holds: on the first stage
\* the group registered with the buffer this call embedded, on a later stage
\* the identifier the call received ahead of the payload.
C29_SendStep ==
    \A p \in Stages :
        (pc[p] = "sendId" /\ pc'[p] = "sendData") =>
            LET m == chan'[p + 1][Len(chan'[p + 1])]
            IN  /\ m.kind = "id"
                /\ IF ReceivesFromPrev(p)
                   THEN m.val = recvSeqID[p]
                   ELSE pool[p][m.val].buf = embBuf[p]

C29_SentIdNamesThePayload == [][C29_SendStep]_vars

\* The steps of a whole forward call of stage p, in the order of the claim.
CallOrder(p) ==
    <<"embeddingForward", "prepareAttnMask", "getPositionIds">>
    \o (IF PPSize > 1 /\ p > 0 THEN <<"recvId", "recvData">> ELSE <<>>)
    \o <<"admission", "pop", "layers">>
    \o (IF PPSize > 1 /\ p < PPSize - 1
        THEN <<"sendId", "sendData">>
        ELSE <<"lastLayerNormForward", "predictorForward">>)

\* C31 (SpecPPMid): the steps a forward call has taken are always the first
\* steps of: embedding, mask, position ids, (not the first stage) receive of
\* the identifier and of the payload, admission, pop, the layers, (not the
\* last stage) send of the identifier and of the payload; a call that has
\* returned has taken them all.
C31_StepsInOrder ==
    \A p \in Stages :
        /\ Len(trace[p]) <= Len(CallOrder(p))
        /\ trace[p] = SubSeq(CallOrder(p), 1, Len(trace[p]))
        /\ (pc[p] = "idle" /\ callNo[p] > 0) => trace[p] = CallOrder(p)

\* The stage between the first and the last has returned from its second call
\* and the last stage is in its layers' wait.
C31_Witness ==
    /\ PPSize = 3
    /\ pc[1] = "idle"
    /\ callNo[1] = 2
    /\ Len(trace[1]) = 10
    /\ trace[1][5] = "recvData"
    /\ trace[1][8] = "layers"
    /\ trace[1][9] = "sendId"
    /\ pc[2] = "recvData"

IsLayerCall(o) == o.op \in {"forwardAttention", "forwardFFN", "reduceAdd"}
LayerCalls == SelectSeq(ops, IsLayerCall)
IsReduce(o) == o.op = "reduceAdd"
ReduceCalls == SelectSeq(ops, IsReduce)
IsFfn(o) == o.op = "forwardFFN"
FfnCalls == SelectSeq(ops, IsFfn)

\* C1: in a generation opened by a step-0 forward call, the accumulated
\* sequence length after every call equals the sum of the seqLen arguments
\* of the calls since (and including) that step-0 call, with or without
\* prefix sharing; a new step-0 call restarts the sum.
C1_AccIsSumOfSeqLens ==
    genByStep0 => accSeqLen = SumSeq(callLens)

C1_Witness ==
    /\ genByStep0
    /\ Len(callLens) >= 3
    /\ prefixSharing
    /\ accSeqLen = SumSeq(callLens)

\* C9: without ATTN_MLP_PARALLEL every layer does, in this order, attention,
\* (TP size > 1) an in-place reduceAdd of attnOut, FFN on attnOut, (TP size
\* > 1) a reduceAdd of the FFN output into embBuf; with TP size 1 FFN writes
\* embBuf directly: 2 * layers reduceAdd calls when TP size > 1, none when 1.
C9_SequentialLayerProtocol ==
    (~attnMlpParallel /\ ops # <<>>) =>
        IF workers > 1
        THEN /\ Len(LayerCalls) = 4 * layers
             /\ Len(ReduceCalls) = 2 * layers
             /\ \A i \in 0..(layers - 1) :
                  /\ LayerCalls[4 * i + 1].op = "forwardAttention"
                  /\ LayerCalls[4 * i + 1].dst = "attnOut"
                  /\ LayerCalls[4 * i + 2].op = "reduceAdd"
                  /\ LayerCalls[4 * i + 2].src = "attnOut"
                  /\ LayerCalls[4 * i + 2].dst = "attnOut"
                  /\ LayerCalls[4 * i + 3].op = "forwardFFN"
                  /\ LayerCalls[4 * i + 3].src = "attnOut"
                  /\ LayerCalls[4 * i + 3].dst = "outBuf"
                  /\ LayerCalls[4 * i + 4].op = "reduceAdd"
                  /\ LayerCalls[4 * i + 4].src = "outBuf"
                  /\ LayerCalls[4 * i + 4].dst = "embBuf"
                  /\ \A k \in 1..4 : LayerCalls[4 * i + k].layer = i
        ELSE /\ Len(LayerCalls) = 2 * layers
             /\ Len(ReduceCalls) = 0
             /\ \A i \in 0..(layers - 1) :
                  /\ LayerCalls[2 * i + 1].op = "forwardAttention"
                  /\ LayerCalls[2 * i + 1].dst = "attnOut"
                  /\ LayerCalls[2 * i + 2].op = "forwardFFN"
                  /\ LayerCalls[2 * i + 2].src = "attnOut"
                  /\ LayerCalls[2 * i + 2].dst = "embBuf"
                  /\ \A k \in 1..2 : LayerCalls[2 * i + k].layer = i

C9_Witness ==
    /\ ~attnMlpParallel
    /\ workers > 1
    /\ layers >= 2
    /\ ret.ptr = "finalOut"
    /\ Len(ReduceCalls) = 2 * layers

\* C10: with ATTN_MLP_PARALLEL no reduceAdd of the attention output is
\* issued; every layer issues exactly one reduceAdd, of outBuf into embBuf,
\* when TP size > 1 and none when TP size = 1, and FFN reads embBuf (the
\* layer's input), never attnOut.
C10_ParallelLayerProtocol ==
    (attnMlpParallel /\ ops # <<>>) =>
        /\ \A k \in 1..Len(ReduceCalls) : ReduceCalls[k].src # "attnOut"
        /\ Len(FfnCalls) = layers
        /\ \A k \in 1..Len(FfnCalls) :
             /\ FfnCalls[k].src = "embBuf"
             /\ FfnCalls[k].layer = k - 1
        /\ IF workers > 1
           THEN /\ Len(ReduceCalls) = layers
                /\ \A k \in 1..Len(ReduceCalls) :
                     /\ ReduceCalls[k].layer = k - 1
                     /\ ReduceCalls[k].src = "outBuf"
                     /\ ReduceCalls[k].dst = "embBuf"
           ELSE Len(ReduceCalls) = 0

C10_Witness ==
    /\ attnMlpParallel
    /\ workers > 1
    /\ layers >= 2
    /\ ret.ptr = "finalOut"
    /\ Len(ReduceCalls) = layers

EndsLayer(k) ==
    /\ ops[k].layer >= 0
    /\ ops[k].op \in {"forwardFFN", "reduceAdd"}
    /\ (k = Len(ops) \/ ops[k + 1].layer # ops[k].layer)

\* C12: after every layer the activation buffer embBuf holds, on every rank
\* of the TP group, the sum over the ranks of their shard-local FFN outputs.
C12_ActivationIsSumOfShardOutputs ==
    \A k \in 1..Len(ops) :
        EndsLayer(k) =>
            LET st == DataAfter(ops, k, workers)
                total == SumRanks(st.ffn, workers - 1) % ValueMod
            IN  \A r \in 0..(workers - 1) : st.buf[r]["embBuf"] = total

C12_Witness ==
    /\ workers > 1
    /\ layers >= 2
    /\ ret.ptr = "finalOut"
    /\ \E k \in 1..Len(ops) :
         /\ EndsLayer(k)
         /\ ops[k].layer = 1
         /\ DataAfter(ops, k, workers).ffn[0] # DataAfter(ops, k, workers).ffn[1]
         /\ DataAfter(ops, k, workers).buf[0]["embBuf"] # DataAfter(ops, k, workers).ffn[0]

\* C13: at step 0 with beamSize > 1 and not logitsAll, row b * beamSize + k
\* of the returned logits is the row computed for prompt b (from the last
\* position of prompt b), for every prompt b and beam k; in particular the
\* beam rows of one prompt are the same.
C13_BeamRowsAreThePromptRow ==
    (ret.ptr = "finalOut" /\ lastCall.step = 0 /\ lastCall.beamSize > 1
        /\ ~lastCall.logitsAll) =>
        /\ Len(finalOut) = lastCall.userSideBS * lastCall.beamSize
        /\ \A b \in 0..(lastCall.userSideBS - 1), k \in 0..(lastCall.beamSize - 1) :
             /\ finalOut[b * lastCall.beamSize + k + 1] = lnIn[b + 1]
             /\ finalOut[b * lastCall.beamSize + k + 1] = finalOut[b * lastCall.beamSize + 1]

C13_Witness ==
    /\ ret.ptr = "finalOut"
    /\ lastCall.step = 0
    /\ lastCall.beamSize > 1
    /\ lastCall.userSideBS > 1
    /\ ~lastCall.logitsAll
    /\ ctx.inputSeqLen > 1
    /\ finalOut[lastCall.userSideBS * lastCall.beamSize] # finalOut[1]

\* C14: without logitsAll the final normalization is given, for every batch
\* item b, activation row (b + 1) * inputSeqLen - 1, whether the rows are
\* gathered (inputSeqLen > 1) or not, and batchSize rows are normalized and
\* projected.
C14_LastPositionIsNormalized ==
    (ret.ptr = "finalOut" /\ ~lastCall.logitsAll) =>
        /\ Len(lnIn) = ctx.batchSize
        /\ \A b \in 0..(ctx.batchSize - 1) : lnIn[b + 1] = (b + 1) * ctx.inputSeqLen - 1
        /\ \A k \in 1..Len(ops) :
             ops[k].op \in {"lastLayerNormForward", "predictorForward"} =>
                 ops[k].n = ctx.batchSize
        /\ \A k \in 1..Len(ops) :
             ops[k].op = "lastLayerNormForward" =>
                 ops[k].src = (IF ctx.inputSeqLen > 1 THEN "outBuf" ELSE "embBuf")

C14_Witness ==
    /\ ret.ptr = "finalOut"
    /\ ~lastCall.logitsAll
    /\ ctx.inputSeqLen > 1
    /\ ctx.batchSize > 1
    /\ lnIn[2] = 2 * ctx.inputSeqLen - 1

\* C15: forward returns batchSize logits rows without logitsAll and
\* batchSize * inputSeqLen rows, one per position processed in the call, with
\* logitsAll.
C15_OneRowPerProcessedPosition ==
    ret.ptr = "finalOut" =>
        ret.rows = (IF lastCall.logitsAll THEN ctx.batchSize * ctx.inputSeqLen
                    ELSE ctx.batchSize)

\* The floats a forward call addresses in actBuffers: the embeddings, then the
\* logits rows it writes.
FloatsNeeded ==
    ctx.batchSize * ctx.inputSeqLen * HiddenSize + Len(finalOut) * SplitSize(workers)

\* C16: at every forward call of a generation the activation buffer has
\* room for batchSize * inputSeqLen rows of hiddenSize and, after them, the
\* logits rows of the call.
C16_ActivationBufferLargeEnough ==
    (ret.ptr = "finalOut" /\ genByStep0 /\ ~lastCall.logitsAll
        /\ (lastCall.step > 0 => lastCall.seqLen = 1)) =>
        actCap >= FloatsNeeded

\* The last call appended keys and values at positions beyond the budget.
OverBudget == ctx.pastSeqLen + ctx.inputSeqLen > MaxPositions

\* C17: a forward call whose pastSeqLen + inputSeqLen exceeds the position
\* budget of the KV cache ends fatally: it returns no logits and no layer's
\* attention is run on the positions beyond the budget.
C17_BudgetOverrunIsFatal ==
    OverBudget =>
        /\ ret.ptr # "finalOut"
        /\ \A k \in 1..Len(ops) : ops[k].op # "forwardAttention"

\* A step of a behaviour that is a forward call (every forward call records
\* its arguments and opens or continues a generation; setPrefix forgets the
\* arguments, skipFirstStep the generation, unsetPrefix flips prefixSharing).
IsForwardStep ==
    /\ lastCall' # NoCall
    /\ genDims' # NoDims
    /\ prefixSharing' = prefixSharing

\* The places of the calls named op on layer i in a sequence of calls.
Places(s, op, i) == {k \in 1..Len(s) : s[k].op = op /\ s[k].layer = i}

\* C21: in a generation opened by a step-0 call with beamSize > 1 every
\* layer's cache is replicated over the beams (expandCache) exactly once, in
\* the step-0 call, after that layer's step-0 attention and before every later
\* attention of that layer; with beamSize = 1, and in every call with
\* step >= 1, expandCache is not called.
C21_ExpandCacheOncePerLayer ==
    /\ genByStep0 =>
         \A i \in 0..(layers - 1) :
             IF genDims.beamSize > 1
             THEN /\ Cardinality(Places(genKv, "expandCache", i)) = 1
                  /\ \A k \in Places(genKv, "expandCache", i) :
                       /\ genKv[k].step = 0
                       /\ \E j \in Places(genKv, "forwardAttention", i) :
                            j < k /\ genKv[j].step = 0
                       /\ \A j \in Places(genKv, "forwardAttention", i) :
                            genKv[j].step >= 1 => j > k
             ELSE Places(genKv, "expandCache", i) = {}
    /\ \A k \in 1..Len(genKv) : genKv[k].op = "expandCache" => genKv[k].step = 0
    /\ (ret.ptr = "finalOut" /\ (lastCall.step >= 1 \/ lastCall.beamSize = 1)) =>
         \A k \in 1..Len(ops) : ops[k].op # "expandCache"

C21_Witness ==
    /\ genByStep0
    /\ genDims.beamSize > 1
    /\ layers >= 2
    /\ lastCall.step >= 1
    /\ \E j \in Places(genKv, "forwardAttention", 1) : genKv[j].step >= 1
    /\ Cardinality(Places(genKv, "expandCache", 1)) = 1

\* What C22 asks of one step.
C22_Step ==
    IsForwardStep =>
        IF lastCall'.step = 0 /\ prefixSharing
        THEN \A i \in 0..(layers - 1) :
                 /\ Cardinality(Places(ops', "expandPrefixCache", i)) = 1
                 /\ Cardinality(Places(ops', "forwardAttention", i)) = 1
                 /\ \A k \in Places(ops', "expandPrefixCache", i) :
                      /\ ops'[k].n = prefixSeqLen
                      /\ \A j \in Places(ops', "forwardAttention", i) : k < j
        ELSE \A k \in 1..Len(ops') : ops'[k].op # "expandPrefixCache"

\* C22: a step-0 forward call made while prefix sharing is enabled calls
\* expandPrefixCache(layer, userSideBS, prefixSeqLen) for every layer, before
\* that layer's attention appends the new tokens; no other forward call calls
\* expandPrefixCache.
C22_PrefixExpandedBeforeAppend == [][C22_Step]_vars

C22_Witness ==
    /\ ret.ptr = "finalOut"
    /\ lastCall.step = 0
    /\ lastCall.sharing
    /\ lastCall.userSideBS > 1
    /\ layers >= 2
    /\ Cardinality(Places(ops, "expandPrefixCache", 1)) = 1

IsResize(o) == o.op = "resize"

\* The context after a forward call holds the shapes of that call.
CtxIsOfThisCall ==
    /\ ctx'.batchSize = (IF lastCall'.step = 0 THEN lastCall'.userSideBS
                         ELSE lastCall'.userSideBS * lastCall'.beamSize)
    /\ ctx'.inputSeqLen = (IF lastCall'.step = 0 /\ prefixSharing
                           THEN lastCall'.seqLen - prefixSeqLen ELSE lastCall'.seqLen)
    /\ ctx'.pastSeqLen = (IF lastCall'.step = 0
                          THEN (IF prefixSharing THEN prefixSeqLen ELSE 0)
                          ELSE accSeqLen)

\* Every resize of the call comes before embedding, the mask and the layers.
ResizeComesFirst ==
    /\ ops'[1].op = "resize"
    /\ \A j, k \in 1..Len(ops') :
         (ops'[j].op = "resize"
             /\ (ops'[k].op \in {"embeddingForward", "prepareAttnMask"} \/ ops'[k].layer >= 0))
         => j < k

\* What the amended C28 asks of one step.
C28_Step ==
    IsForwardStep =>
        /\ ResizeComesFirst
        /\ Len(SelectSeq(ops', IsResize)) =
               (IF lastCall'.step = 0 /\ prefixSharing THEN 2 ELSE 1)
        /\ SelectSeq(ops', IsResize)[Len(SelectSeq(ops', IsResize))].n = ctx'.inputSeqLen
        /\ CtxIsOfThisCall

\* C28 (amended): every forward call resizes the Execution Context before
\* embedding, mask preparation or any layer: once, and twice in a step-0 call
\* with prefix sharing (first to the full length, then to the new-token length
\* and the prefix length); when the layers run the context's batchSize,
\* inputSeqLen and pastSeqLen are those of this call.
C28_ResizedBeforeUse == [][C28_Step]_vars

C28_Witness ==
    /\ ret.ptr = "finalOut"
    /\ lastCall.step = 0
    /\ lastCall.sharing
    /\ Len(SelectSeq(ops, IsResize)) = 2
    /\ ctx.pastSeqLen = prefixSeqLen
    /\ ctx.pastSeqLen >= 1
    /\ ctx.inputSeqLen = lastCall.seqLen - prefixSeqLen

\* What C28 as stated asks of one step.
C28_OriginalStep ==
    IsForwardStep =>
        /\ ResizeComesFirst
        /\ Len(SelectSeq(ops', IsResize)) = 1
        /\ CtxIsOfThisCall

\* C28 as stated: every forward call resizes the Execution Context exactly
\* once, before embedding, mask preparation or any layer, and the layers run
\* with the shapes of this call.
C28_ResizedExactlyOnce == [][C28_OriginalStep]_vars

\* What C33 asks of one step.
C33_Step ==
    IsForwardStep =>
        LET c == lastCall'
            batch == IF c.step = 0 THEN c.userSideBS ELSE c.userSideBS * c.beamSize
        IN  /\ accSeqLen' = ctx'.pastSeqLen + ctx'.inputSeqLen
            /\ (c.step = 0 /\ ~c.sharing) =>
                   (ctx'.pastSeqLen = 0 /\ ctx'.inputSeqLen = c.seqLen)
            /\ (c.step = 0 /\ c.sharing) =>
                   (ctx'.pastSeqLen = c.prefixLen
                      /\ ctx'.inputSeqLen = c.seqLen - c.prefixLen)
            /\ c.step >= 1 =>
                   (ctx'.pastSeqLen = accSeqLen /\ ctx'.inputSeqLen = c.seqLen)
            /\ ctx'.batchSize = batch
            \* the embedding and the layers are called with these shapes
            /\ \A k \in 1..Len(ops') :
                   /\ ops'[k].op = "embeddingForward" =>
                          ops'[k].n = batch * ctx'.inputSeqLen
                   /\ ops'[k].op = "forwardAttention" =>
                          ops'[k].n = ctx'.pastSeqLen

\* C33: after every forward(ids, dims, step) call the accumulated sequence
\* length is pastSeqLen + inputSeqLen of that call, where at step 0 without
\* prefix sharing pastSeqLen = 0 and inputSeqLen = seqLen, at step 0 with prefix
\* sharing pastSeqLen = prefixSeqLen and inputSeqLen = seqLen - prefixSeqLen,
\* and at step >= 1 pastSeqLen is the accumulated length before the call and
\* inputSeqLen = seqLen; the batch size is userSideBS at step 0 and
\* userSideBS * beamSize at every later step.
C33_AccIsPastPlusInput == [][C33_Step]_vars

C33_Witness ==
    /\ ret.ptr = "finalOut"
    /\ lastCall.step >= 1
    /\ lastCall.beamSize = 2
    /\ genByStep0
    /\ prefixSharing
    /\ ctx.batchSize = lastCall.userSideBS * 2
    /\ ctx.pastSeqLen >= 2
    /\ accSeqLen = ctx.pastSeqLen + lastCall.seqLen

\* skipFirstStep was the last call that opened a generation, and no forward
\* call followed it yet.
AfterSkipFirstStep == ~genByStep0 /\ callLens = <<>> /\ initSeqLen >= 1

\* What C35 asks of one step.
C35_Step ==
    /\ AfterSkipFirstStep' => (accSeqLen' = initSeqLen')
    /\ (AfterSkipFirstStep /\ IsForwardStep /\ lastCall'.step >= 1) =>
           LET n == initSeqLen
               s == lastCall'.seqLen
               \* the accumulated length a step-0 call of length n leaves
               acc0 == AccAfter(0, 0, n)
           IN  /\ accSeqLen = n
               /\ acc0 = n
               /\ ctx'.pastSeqLen = n
               /\ ctx'.inputSeqLen = s
               /\ accSeqLen' = n + s
               /\ initSeqLen' = n
               /\ ctx'.pastSeqLen
                      = PastSeqLenOf(lastCall'.step, acc0, prefixSharing, prefixSeqLen)
               /\ accSeqLen' = AccAfter(lastCall'.step, acc0, s)

\* C35: after skipFirstStep(n) the initial and the accumulated sequence
\* length both equal n; a following forward call with step >= 1 and sequence
\* length s runs with pastSeqLen = n and leaves the accumulated length at
\* n + s, as after a step-0 call of length n.
C35_SkipFirstStepAligns == [][C35_Step]_vars

C35_Witness ==
    /\ ~genByStep0
    /\ initSeqLen = 2
    /\ callLens = <<1>>
    /\ lastCall.step = 1
    /\ ret.ptr = "finalOut"
    /\ ctx.pastSeqLen = 2
    /\ accSeqLen = 3

(***************************************************************************)
(* Properties of SpecKV.                                                   *)
(***************************************************************************)
IsIdentity(idx) == \A i \in 1..Len(idx) : idx[i] = i

\* The inverse of a permutation of 1..Len(idx).
Inverse(idx) == [i \in 1..Len(idx) |-> CHOOSE j \in 1..Len(idx) : idx[j] = i]

\* C23: reorderCache with the identity permutation leaves every layer's cache
\* as it was; reordering the result of reorderCache(P) by the inverse of P
\* gives back the cache from before the call; the cache manager is handed the
\* decoder's initSeqLen and accSeqLen, and no other state of the decoder (nor
\* the prefix cache) changes.
C23_Step ==
    kvEvent'.name = "reorderCache" =>
        LET idx == kvEvent'.idx
        IN  /\ IsIdentity(idx) => kvCache' = kvCache
            /\ \A i \in DOMAIN kvCache :
                   ReorderSlots(kvCache'[i], Inverse(idx), Len(idx)) = kvCache[i]
            /\ kvEvent'.args = <<initSeqLen, accSeqLen>>
            /\ decVars' = decVars
            /\ prefixKV' = prefixKV

NoSource == [item |-> -1, pos |-> -1]

RowSource(k, batchSize, inputLen, pastLen) ==
    IF k >= 0 /\ k < batchSize * inputLen
    THEN [item |-> k \div inputLen, pos |-> pastLen + (k % inputLen)]
    ELSE NoSource

\* Request row alone, over its full token sequence and without prefix sharing:
\* the caches after the step-0 call on a decoder whose caches are empty.
IndependentKv(row, beamSize) ==
    LET seqLen == Len(row)
        calls == PreLayerOps(0, 1, seqLen, seqLen, 0, FALSE)
                 \o LayerLoop(0, layers, 0, 1, beamSize, seqLen, 0, FALSE, 0, workers,
                              attnMlpParallel, seqLen * HiddenSize)
    IN  KvAfter(calls, Len(calls), EmptyKv(layers),
                [rows |-> <<row>>, userSideBS |-> 1, beamSize |-> beamSize,
                 batchSize |-> 1, prefix |-> FALSE]).kv

\* The logits rows that run returns for batch item b, as their sources.
IndependentLogits(b, seqLen, beamSize, logitsAll) ==
    LET rows == FinalOutRows(LnInRows(1, seqLen, seqLen, logitsAll), 0, 1, beamSize)
    IN  [j \in 1..Len(rows) |->
            LET src == RowSource(rows[j], 1, seqLen, 0)
            IN  IF src = NoSource THEN NoSource ELSE [item |-> b, pos |-> src.pos]]

RECURSIVE ConcatLogits(_, _, _, _, _)
ConcatLogits(b, userSideBS, seqLen, beamSize, logitsAll) ==
    IF b >= userSideBS THEN <<>>
    ELSE IndependentLogits(b, seqLen, beamSize, logitsAll)
         \o ConcatLogits(b + 1, userSideBS, seqLen, beamSize, logitsAll)

\* A step-0 forward with prefix sharing whose rows begin with the tokens the
\* prefix cache was filled with.
IsSharedPrefixStep ==
    /\ kvEvent'.name = "forward"
    /\ lastCall'.step = 0
    /\ lastCall'.sharing
    /\ \A b \in 1..Len(kvEvent'.ids) : \A t \in 1..lastCall'.prefixLen :
           \A i \in DOMAIN prefixKV :
               Len(prefixKV[i]) >= t /\ prefixKV[i][t].tok = kvEvent'.ids[b][t]

\* ... every batch item's slots hold, at the positions [0, seqLen), the tokens
\* and position numbers the independent run leaves there
SharedKvIsIndependentKv ==
    LET c == lastCall'
    IN  \A i \in DOMAIN kvCache' : \A b \in 0..(c.userSideBS - 1) :
            \A j \in 1..c.beamSize :
                /\ Len(kvCache'[i]) >= b * c.beamSize + j
                /\ Len(kvCache'[i][b * c.beamSize + j]) >= c.seqLen
                /\ SubSeq(kvCache'[i][b * c.beamSize + j], 1, c.seqLen)
                       = SubSeq(IndependentKv(kvEvent'.ids[b + 1], c.beamSize)[i][j],
                                1, c.seqLen)

\* ... and the logits rows returned are those of the independent runs
SharedLogitsAreIndependentLogits ==
    LET c == lastCall'
    IN  [j \in 1..Len(finalOut') |->
            RowSource(finalOut'[j], c.userSideBS, c.seqLen - c.prefixLen, c.prefixLen)]
        = ConcatLogits(0, c.userSideBS, c.seqLen, c.beamSize, c.logitsAll)

\* C24: a step-0 forward with prefix sharing leaves in the KV cache, and
\* returns as logits, what the independent runs of its requests over their
\* full token sequences leave and return.
C24_Step ==
    IsSharedPrefixStep => (SharedKvIsIndependentKv /\ SharedLogitsAreIndependentLogits)

C24_PrefixSharingIsEquivalent == [][C24_Step]_vars

CountOp(s, name) == Cardinality({k \in 1..Len(s) : s[k].op = name})

\* C25: setPrefix(ids, L) turns prefix sharing on with prefix length L and
\* fills every layer's prefix cache with the L tokens at the positions 0..L-1,
\* the accumulated and the initial length staying as they were; unsetPrefix
\* turns prefix sharing off, no other call turns it on, and a step-0 forward
\* made while it is off runs with pastSeqLen 0 and inputSeqLen seqLen, calls
\* no expandPrefixCache, makes no prefix split (one resize, one
\* getPositionIds) and leaves in the cache the tokens of its rows only.
C25_Step ==
    /\ kvEvent'.name = "setPrefix" =>
           LET ids == kvEvent'.ids[1]
           IN  /\ prefixSharing'
               /\ prefixSeqLen' = Len(ids)
               /\ \A i \in DOMAIN prefixKV' :
                      prefixKV'[i] = [t \in 1..Len(ids) |-> [tok |-> ids[t], pos |-> t - 1]]
               /\ accSeqLen' = accSeqLen
               /\ initSeqLen' = initSeqLen
    /\ kvEvent'.name = "unsetPrefix" => ~prefixSharing'
    /\ kvEvent'.name \notin {"setPrefix", "unsetPrefix"} => prefixSharing' = prefixSharing
    /\ (kvEvent'.name = "forward" /\ lastCall'.step = 0 /\ ~prefixSharing) =>
           LET c == lastCall'
           IN  /\ ctx'.pastSeqLen = 0
               /\ ctx'.inputSeqLen = c.seqLen
               /\ CountOp(ops', "expandPrefixCache") = 0
               /\ CountOp(ops', "resize") = 1
               /\ CountOp(ops', "getPositionIds") = 1
               /\ \A k \in 1..Len(ops') : ops'[k].op = "forwardAttention" => ops'[k].n = 0
               /\ \A i \in DOMAIN kvCache' : \A b \in 0..(c.userSideBS - 1) :
                      \A j \in 1..c.beamSize :
                          kvCache'[i][b * c.beamSize + j]
                              = IndependentKv(kvEvent'.ids[b + 1], c.beamSize)[i][j]

C25_SetAndUnsetPrefix == [][C25_Step]_vars

\* A step-0 forward has run after a prefix was set and then unset.
C25_Witness ==
    /\ kvEvent.name = "forward"
    /\ lastCall.step = 0
    /\ ~lastCall.sharing
    /\ ~prefixSharing
    /\ prefixSeqLen >= 1
    /\ \A i \in DOMAIN prefixKV : Len(prefixKV[i]) = prefixSeqLen

(***************************************************************************)
(* Properties of SpecSplit.                                                *)
(***************************************************************************)
\* A step-0 forward call made with prefix sharing on.
IsSplitStep ==
    /\ kvEvent'.name = "forward"
    /\ lastCall'.step = 0
    /\ lastCall'.sharing

\* The new tokens are tokens [prefixSeqLen, seqLen) of every row, in order:
\* in newIDs, and in what the layers append to the cache behind the prefix.
NewTokensAreTheRowTails ==
    LET c == lastCall'
        ids == kvEvent'.ids
        inputSeqLen == c.seqLen - c.prefixLen
        newIDs == SplitNewIDs(Flat(ids), c.userSideBS, c.seqLen, c.prefixLen, inputSeqLen)
    IN  /\ Len(newIDs) = c.userSideBS * inputSeqLen
        /\ \A b \in 1..c.userSideBS : \A k \in 1..inputSeqLen :
               /\ newIDs[(b - 1) * inputSeqLen + k] = ids[b][c.prefixLen + k]
               /\ \A i \in DOMAIN kvCache' :
                      /\ Len(kvCache'[i][(b - 1) * c.beamSize + 1]) >= c.prefixLen + k
                      /\ kvCache'[i][(b - 1) * c.beamSize + 1][c.prefixLen + k].tok
                             = ids[b][c.prefixLen + k]
        /\ SplitPrefixIDs(Flat(ids), c.userSideBS, c.seqLen, c.prefixLen)
               = Flat([b \in 1..c.userSideBS |-> SubSeq(ids[b], 1, c.prefixLen)])
        /\ \E k \in 1..Len(ops') :
               /\ ops'[k].op = "embeddingForward"
               /\ ops'[k].n = c.userSideBS * inputSeqLen
        \* the position ids of the prefix come before the second resize
        /\ ops'[2] = Op("getPositionIds", -1, NoBuf, NoBuf, c.prefixLen)

C34_Step ==
    IsSplitStep => (NewTokensAreTheRowTails /\ ctx'.inputSeqLen >= 1)

\* C34: at step 0 with prefix sharing the input is split per batch row into
\* the first prefixSeqLen tokens and the remaining seqLen - prefixSeqLen
\* tokens: the new-token ids passed on are tokens [prefixSeqLen, seqLen) of
\* every row in order, the position ids of the prefix are computed first, and
\* the new-token length is at least 1 (a call with seqLen <= prefixSeqLen
\* does not proceed with an empty input).
C34_SplitKeepsANewToken == [][C34_Step]_vars

(***************************************************************************)
(* Properties of SpecCB.                                                   *)
(***************************************************************************)
\* What C36 asks of one step.
C36_Step ==
    (seqs'.called /\ seqs'.list = <<>>) =>
        /\ retSeqs' = [ptr |-> "nullptr", splitOffset |-> 0, splitSize |-> 0]
        /\ ctxSeqs' = ctxSeqs
        /\ ctx' = ctx
        /\ actCap' = actCap
        /\ ops' = <<>>
        /\ lnIn' = lnIn
        /\ finalOut' = finalOut
        /\ accSeqLen' = accSeqLen
        /\ initSeqLen' = initSeqLen

\* C36: forward(seqs, logitsAll) called with an empty list returns
\* (nullptr, 0, 0) and changes nothing: neither the Execution Context nor the
\* activation buffer is resized, and no embedding, layer, normalization or
\* projection runs.
C36_EmptyBatchReturnsAtOnce == [][C36_Step]_vars

C36_Witness ==
    /\ seqs.called
    /\ seqs.list = <<>>
    /\ retSeqs.ptr = "nullptr"
    /\ ops = <<>>
    \* after a call that did resize both
    /\ ctxSeqs.totInputSeqLen >= 2
    /\ actCap > 0
    /\ lnIn # <<>>

\* The token row of the last input token of sequence b (from 1) of a batch.
LastRowOf(list, b) == TotInputSeqLen(SubSeq(list, 1, b)) - 1

\* What C37 asks of one step.
C37_Step ==
    (seqs'.called /\ seqs'.list # <<>>) =>
        LET list == seqs'.list
            tot == TotInputSeqLen(list)
            logitRows == Len(lnIn')
        IN  /\ logitRows = (IF ~seqs'.logitsAll /\ list[1].step = 0
                             THEN Len(list) ELSE tot)
            /\ \A k \in 1..Len(ops') :
                   ops'[k].op \in {"lastLayerNormForward", "predictorForward"} =>
                       ops'[k].n = logitRows
            /\ IF \E k \in 1..Len(ops') : ops'[k].op = "copyLastRows"
               THEN /\ logitRows = Len(list)
                    /\ \A b \in 1..Len(list) : lnIn'[b] = LastRowOf(list, b)
               ELSE \A k \in 1..logitRows : lnIn'[k] = k - 1
            \* without logitsAll a prompt batch gets the last rows, gathered or not
            /\ (~seqs'.logitsAll /\ list[1].step = 0) =>
                   \A b \in 1..Len(list) : lnIn'[b] = LastRowOf(list, b)

\* C37: in forward(seqs, logitsAll) the logits rows are one per sequence when
\* logitsAll is false and the batch is a prompt batch, and one per input token
\* otherwise; when the rows are gathered, row b of the normalization input is
\* the hidden state of the last input token of sequence b (the row: the sum of
\* the input lengths of the sequences 0..b, minus 1), the in-place ascending
\* gather overwriting no row a later sequence still reads, every sequence
\* having an input length >= 1.
C37_LastRowsGathered == [][C37_Step]_vars

C37_Witness ==
    /\ seqs.called
    /\ ~seqs.logitsAll
    /\ Len(seqs.list) = 3
    /\ seqs.list[1].inputSeqLen = 2
    /\ seqs.list[2].inputSeqLen = 1
    /\ seqs.list[3].inputSeqLen = 2
    /\ lnIn = <<1, 2, 4>>
    /\ \E k \in 1..Len(ops) : ops[k].op = "copyLastRows"

(***************************************************************************)
(* Properties of SpecOpt.                                                  *)
(***************************************************************************)
\* What C38 asks of one step.
C38_Step ==
    LET c == optCall'
        s == c.seqLen
    IN  /\ maskSize' >= maskSize
        /\ Len(attnMask') = maskSize'
        /\ c.called =>
              IF c.step = 0
              THEN /\ maskSize' >= c.batchSize * s * s
                   /\ \A b \in 0..(c.batchSize - 1) : \A i, j \in 0..(s - 1) :
                          attnMask'[b * s * s + i * s + j + 1]
                              = (IF j <= i THEN 0 ELSE Lowest)
              ELSE /\ maskSize' >= c.batchSize * c.accSeqLen
                   /\ \A k \in 1..(c.batchSize * c.accSeqLen) : attnMask'[k] = 0
        \* forward calls it with the shapes of the call, after line 364
        /\ IsForwardStep =>
              /\ c.called
              /\ c.step = lastCall'.step + (IF prefixSharing THEN 1 ELSE 0)
              /\ c.batchSize = ctx'.batchSize
              /\ c.seqLen = ctx'.inputSeqLen
              /\ c.accSeqLen = accSeqLen'
              /\ c.accSeqLen = ctx'.pastSeqLen + ctx'.inputSeqLen

\* C38: OptDecoder::prepareAttnMask called with step 0 builds a causal mask
\* for every batch item (entry (i, j) of the seqLen x seqLen block is 0 for
\* j <= i and the lowest float for j > i); called with step >= 1 it builds an
\* all-zero mask of batchSize * accumulated-length entries, the accumulated
\* length including the tokens of the current call.  The mask storage holds at
\* least the entries written, and its capacity never decreases.
C38_MaskIsBuilt == [][C38_Step]_vars

C38_Witness ==
    /\ optCall.called
    /\ optCall.step = 0
    /\ optCall.batchSize = 2
    /\ optCall.seqLen = 2
    /\ maskSize > 8
    /\ SubSeq(attnMask, 1, 8) = <<0, Lowest, 0, 0, 0, Lowest, 0, 0>>
    /\ attnMask[9] = 0

\* What C39 asks of one step.
C39_Step ==
    IsForwardStep =>
        /\ Len(positions') = ctx'.batchSize * ctx'.inputSeqLen
        /\ \A b \in 0..(ctx'.batchSize - 1) : \A i \in 0..(ctx'.inputSeqLen - 1) :
               positions'[b * ctx'.inputSeqLen + i + 1] = ctx'.pastSeqLen + i

\* C39: OptDecoder::embeddingForward gives token i of every batch row the
\* position (accumulated length at the call) + i, which is pastSeqLen + i,
\* the tokens of the sequence already in the KV cache plus i, in every forward
\* call of a generation, a step-0 call with prefix sharing included.
C39_PositionsFollowTheCache == [][C39_Step]_vars

(***************************************************************************)
(* Properties of SpecP2P.                                                  *)
(***************************************************************************)
\* The send e was issued by a rank of a stage that has a next stage, to the
\* rank of the next stage with the sender's TP rank, with that rank as tag.
ToSameTpRankOfNextStage(e) ==
    LET p == e.src \div world.tpSize
        t == e.src % world.tpSize
    IN  /\ p < world.ppSize - 1
        /\ e.dst = (p + 1) * world.tpSize + t
        /\ e.tag = (p + 1) * world.tpSize + t

\* C30: every send issued by world rank p * tpSize + t is addressed to world
\* rank (p + 1) * tpSize + t with that rank as tag; the receive world rank
\* (p + 1) * tpSize + t is blocked in names source p * tpSize + t and its own
\* rank as tag; and every receive completed with a send of the rank of the
\* previous stage with the same TP rank, of the same kind and with the same
\* element count.
C30_SendsMatchNextStage ==
    /\ \A r \in Ranks : \A k \in 1..Len(wire[r]) :
           ToSameTpRankOfNextStage(wire[r][k]) /\ wire[r][k].dst = r
    /\ \A r \in Ranks :
           posted[r].recv # NoRecv =>
               /\ r \div world.tpSize > 0
               /\ posted[r].recv.source = r - world.tpSize
               /\ posted[r].recv.tag = r
    /\ \A d \in delivered :
           /\ ToSameTpRankOfNextStage(d.send)
           /\ d.send.dst = d.by
           /\ d.recv.source = d.send.src
           /\ d.recv.tag = d.send.tag
           /\ d.recv.kind = d.send.kind
           /\ d.recv.count = d.send.count
           /\ d.by \div world.tpSize = (d.send.src \div world.tpSize) + 1
           /\ d.by % world.tpSize = d.send.src % world.tpSize

\* In a job of three stages of two ranks the rank of TP rank 1 of the last
\* stage has received the payloads of two calls of different sizes, and its
\* neighbour of TP rank 0 has a send waiting.
C30_Witness ==
    /\ world.ppSize = 3
    /\ world.tpSize = 2
    /\ \E d1, d2 \in delivered :
          /\ d1.by = 5 /\ d2.by = 5
          /\ d1.send.src = 3 /\ d2.send.src = 3
          /\ d1.send.kind = "data" /\ d2.send.kind = "data"
          /\ d1.send.count # d2.send.count
    /\ wire[4] # <<>>

(***************************************************************************)
(* Properties of SpecCtor.                                                 *)
(***************************************************************************)
InSteps(name) == \E k \in 1..Len(steps) : steps[k] = name

\* The configuration asks for int8 or uint4 weights with a wrong scales type,
\* zero-point type or group size.
BadQuantTriple ==
    /\ cfg.quantQweight \in {"int8", "uint4"}
    /\ (cfg.quantScales # "fp32" \/ cfg.quantZeros # "fp32" \/ cfg.quantGroupsize # -1)

\* The last request differs from the constructed context in a shape the
\* context is tested on.
ReqIncompatible ==
    \/ req.hiddenSize # cfg.hiddenSize
    \/ req.attHeadNum # cfg.attHeadNum
    \/ req.kvHeadNum # cfg.kvHeadNum
    \/ req.imSize # cfg.imSize

\* C18: a layer count that the PP stage count does not divide ends the
\* process in the constructor, before the decoder block is created and before
\* the KV cache manager is configured; a divisible one lets the constructor
\* run to its end.
C18_UnevenLayersEndStartup ==
    (phase # "new" /\ ~BadQuantTriple) =>
        IF cfg.layers % cfg.ppSize # 0
        THEN /\ phase = "exit"
             /\ steps = <<"quant", "context", "layers">>
             /\ ~InSteps("decoderBlock")
             /\ ~InSteps("kvConfigure")
        ELSE /\ steps = AllSteps
             /\ (req = NoReq => phase = "constructed")

C18_Witness ==
    /\ phase = "exit"
    /\ cfg.layers = 3
    /\ cfg.ppSize = 2
    /\ steps = <<"quant", "context", "layers">>
    /\ context # NoContext

\* C19: a re-derivation of the context of a constructed decoder ends the
\* process when the requested hidden size, head counts or intermediate size
\* differ from the context's, and otherwise returns the existing context,
\* unmodified; a context is created only when none exists, so at most once.
C19_RederiveKeepsOrEnds ==
    /\ ctxCreated <= 1
    /\ ctxGot = "created" => req = NoReq
    /\ req # NoReq =>
         /\ ctxCreated = 1
         /\ context = NewContext(cfg.layers, cfg.hiddenSize, cfg.attHeadNum, cfg.kvHeadNum,
                                 cfg.imSize, MyRank, cfg.ppSize)
         /\ IF ReqIncompatible
            THEN phase = "exit" /\ ctxGot = "exit"
            ELSE phase = "constructed" /\ ctxGot = "existing"

C19_Witness ==
    /\ phase = "exit"
    /\ ctxGot = "exit"
    /\ req.hiddenSize = cfg.hiddenSize
    /\ req.attHeadNum = cfg.attHeadNum
    /\ req.kvHeadNum # cfg.kvHeadNum
    /\ ctxCreated = 1

\* C20: int8 or uint4 weights with a scales type or zero-point type other
\* than fp32, or a group size other than -1, end the process in the
\* constructor; with a valid triple the weight type is int8 for "int8" and
\* int4 for "uint4"; without a quantization key the weight type is the one
\* chosen from the weight files.
C20_QuantTripleChecked ==
    phase # "new" =>
        /\ BadQuantTriple => (phase = "exit" /\ steps = <<"quant">>)
        /\ (cfg.quantQweight = "int8" /\ ~BadQuantTriple) => (dt = "int8" /\ Len(steps) > 1)
        /\ (cfg.quantQweight = "uint4" /\ ~BadQuantTriple) => (dt = "int4" /\ Len(steps) > 1)
        /\ cfg.quantQweight = "" =>
             dt = BaseWeightType(cfg.srcWeightType, cfg.attnWeightType)

C20_Witness ==
    /\ phase = "exit"
    /\ steps = <<"quant">>
    /\ cfg.quantQweight = "uint4"
    /\ cfg.quantScales = "fp32"
    /\ cfg.quantZeros = "fp32"
    /\ cfg.quantGroupsize = 128

\* C27: the KV cache manager of the process has been configured exactly once
\* however many decoders the process has constructed.
C27_ConfiguredOncePerProcess ==
    phase = "constructed" => kvConfigures = 1

=============================================================================
